---- MODULE Spec2Model ----
(***************************************************************************)
(* A model of the ray tracer: vector/point/matrix algebra, shapes, rays,   *)
(* intersections, Phong lighting, the world and the camera's render loop.  *)
(*                                                                         *)
(* Numbers.  The program computes in f64.  The model computes in exact     *)
(* rationals <<n, d>> (d > 0, lowest terms) and draws its inputs from sets *)
(* on which every square root the program takes is the root of a perfect   *)
(* square, so that the value of every expression is determined.            *)
(***************************************************************************)
EXTENDS Integers, Sequences, FiniteSets, TLC

VARIABLES
    world,           \* the World under test: its objects and its light
    camera,          \* the Camera under test
    unstable_order,  \* how this build's sort_unstable_by orders elements that compare equal
    call,            \* the library call in progress: its name, its arguments, its result
    pc,              \* "idle", "panic" (the program panicked), and in Camera::render:
                     \* "render" (in the loops), "done" (returned)
    pixel_x,         \* Camera::render: the inner loop's counter x
    pixel_y,         \* Camera::render: the outer loop's counter y
    image,           \* Camera::render: the canvas being filled
    writes,          \* history: the (x, y, color) of every write_pixel call of this render,
                     \* of the last write_pixel call to each cell of a canvas
    run,             \* history: how many renders of the same (camera, world) have returned
    first            \* history: the canvas the first render returned

vars == <<world, camera, unstable_order, call, pc, pixel_x, pixel_y, image, writes, run, first>>

(***************************************************************************)
(* f64 arithmetic                                                          *)
(***************************************************************************)
\* Rust evaluates a let binding, or an argument, before the code that follows it:
\* then, once value has been evaluated
Strict(value, then) == IF value = value THEN then ELSE then

Abs(i) == IF i < 0 THEN -i ELSE i

RECURSIVE Gcd(_, _)
Gcd(a, b) == IF b = 0 THEN a ELSE Gcd(b, a % b)

\* the rational n/d in lowest terms with a positive denominator (d # 0)
Q(n, d) ==
    LET Lowest(g, s) == <<(s * n) \div g, (s * d) \div g>>
    IN  Lowest(Gcd(Abs(n), Abs(d)), IF d < 0 THEN -1 ELSE 1)

I(n) == <<n, 1>>

Zero == I(0)

One == I(1)

FAdd(a, b) ==
    LET Over(g) == Q(a[1] * (b[2] \div g) + b[1] * (a[2] \div g), (a[2] \div g) * b[2])
    IN  IF a[2] = b[2] THEN Q(a[1] + b[1], a[2]) ELSE Over(Gcd(a[2], b[2]))

FNeg(a) == <<-a[1], a[2]>>

FSub(a, b) == FAdd(a, FNeg(b))

FMul(a, b) ==
    LET Cancelled(g1, g2) == <<(a[1] \div g1) * (b[1] \div g2), (a[2] \div g2) * (b[2] \div g1)>>
    IN  IF a[1] = 0 \/ b[1] = 0 THEN Zero
        ELSE Cancelled(Gcd(Abs(a[1]), b[2]), Gcd(Abs(b[1]), a[2]))

\* b # 0
FDiv(a, b) ==
    FMul(a, IF b[1] < 0 THEN <<-b[2], -b[1]>> ELSE <<b[2], b[1]>>)

FLt(a, b) == a[1] * b[2] < b[1] * a[2]

FLe(a, b) == a[1] * b[2] <= b[1] * a[2]

FAbs(a) == <<Abs(a[1]), a[2]>>

RECURSIVE Newton(_, _)
\* Newton's iteration for the integer square root of n, from an estimate k above it
Newton(n, k) ==
    LET next == (k + n \div k) \div 2
    IN  IF next >= k THEN k ELSE Newton(n, next)

\* the integer square root of n, which is a perfect square
ISqrt(n) ==
    LET k == IF n < 2 THEN n ELSE Newton(n, n \div 2 + 1)
    IN  CHOOSE r \in {k} : r * r = n

\* f64::sqrt, on a non-negative rational whose numerator and denominator are squares
FSqrt(a) == <<ISqrt(a[1]), ISqrt(a[2])>>

\* f64::powf with an exponent that is a natural number e
RECURSIVE FPow(_, _)
FPow(a, e) == IF e = 0 THEN One ELSE FMul(a, FPow(a, e - 1))

\* utils.rs
EPSILON == <<1, 10000>>

equal(a, b) == FLt(FAbs(FSub(a, b)), EPSILON)

(***************************************************************************)
(* Vector, Point, Color                                                    *)
(***************************************************************************)
Vector_new(x, y, z) == [x |-> x, y |-> y, z |-> z]

Point_new(x, y, z) == [x |-> x, y |-> y, z |-> z]

Color_new(r, g, b) == [r |-> r, g |-> g, b |-> b]

Color_black == Color_new(Zero, Zero, Zero)

Color_white == Color_new(One, One, One)

Vector_dot(a, b) ==
    FAdd(FAdd(FMul(a.x, b.x), FMul(a.y, b.y)), FMul(a.z, b.z))

Vector_magnitude(v) ==
    FSqrt(FAdd(FAdd(FMul(v.x, v.x), FMul(v.y, v.y)), FMul(v.z, v.z)))

Vector_normalize(v) ==
    LET Divided(magnitude) ==
            Strict(magnitude, [x |-> FDiv(v.x, magnitude), y |-> FDiv(v.y, magnitude),
                               z |-> FDiv(v.z, magnitude)])
    IN  Strict(v, Divided(Vector_magnitude(v)))

Vector_add(a, b) == [x |-> FAdd(a.x, b.x), y |-> FAdd(a.y, b.y), z |-> FAdd(a.z, b.z)]

Vector_sub(a, b) == [x |-> FSub(a.x, b.x), y |-> FSub(a.y, b.y), z |-> FSub(a.z, b.z)]

Vector_mul(a, k) == [x |-> FMul(a.x, k), y |-> FMul(a.y, k), z |-> FMul(a.z, k)]

Vector_neg(a) == [x |-> FNeg(a.x), y |-> FNeg(a.y), z |-> FNeg(a.z)]

Vector_reflect(v, normal) ==
    Vector_sub(v, Vector_mul(Vector_mul(normal, I(2)), Vector_dot(v, normal)))

\* Point + Vector, Point - Point
Point_add(p, v) == [x |-> FAdd(p.x, v.x), y |-> FAdd(p.y, v.y), z |-> FAdd(p.z, v.z)]

Point_sub(p, q) == [x |-> FSub(p.x, q.x), y |-> FSub(p.y, q.y), z |-> FSub(p.z, q.z)]

Color_add(a, b) == [r |-> FAdd(a.r, b.r), g |-> FAdd(a.g, b.g), b |-> FAdd(a.b, b.b)]

Color_scale(a, k) == [r |-> FMul(a.r, k), g |-> FMul(a.g, k), b |-> FMul(a.b, k)]

Color_mul(a, b) == [r |-> FMul(a.r, b.r), g |-> FMul(a.g, b.g), b |-> FMul(a.b, b.b)]

(***************************************************************************)
(* Matrix: a dimension and a 4x4 grid; rows and columns count from 0       *)
(***************************************************************************)
\* Vec<f64> and Vec<Vec<f64>>: the values of f on 1..4, as a tuple
Filled(f) == SubSeq(f, 1, 4)

Matrix_get(m, row, col) == m.grid[row + 1][col + 1]

\* contents has dimension * dimension elements and dimension <= 4 (the program
\* panics otherwise)
Matrix_new(dimension, contents) ==
    [dimension |-> dimension,
     grid |-> Filled([i \in 1..4 |-> Filled([j \in 1..4 |->
                 LET row == i - 1
                     col == j - 1
                 IN  IF row < dimension /\ col < dimension
                     THEN contents[row * dimension + col + 1] ELSE Zero])])]

Matrix_eye_full(dimension) ==
    [dimension |-> dimension,
     grid |-> Filled([i \in 1..4 |-> Filled([j \in 1..4 |-> IF i = j THEN One ELSE Zero])])]

\* dimension <= 4 (grid[i][i] is out of bounds, and the program panics, otherwise)
Matrix_eye(dimension) ==
    [dimension |-> dimension,
     grid |-> Filled([i \in 1..4 |-> Filled([j \in 1..4 |->
                 LET row == i - 1
                     col == j - 1
                 IN  IF row = col /\ row < dimension THEN One ELSE Zero])])]

Matrix_default == Matrix_eye(4)

Matrix_transpose(m) ==
    [dimension |-> m.dimension,
     grid |-> Filled([i \in 1..4 |-> Filled([j \in 1..4 |->
                 LET row == i - 1
                     col == j - 1
                 IN  IF row < m.dimension /\ col < m.dimension
                     THEN Matrix_get(m, col, row) ELSE Zero])])]

\* row < m.dimension and col < m.dimension (the program panics otherwise)
Matrix_submatrix(m, row, col) ==
    [dimension |-> m.dimension - 1,
     grid |-> Filled([i \in 1..4 |-> Filled([j \in 1..4 |->
                 LET new_row == i - 1
                     new_col == j - 1
                 IN  IF new_row < m.dimension - 1 /\ new_col < m.dimension - 1
                     THEN Matrix_get(m,
                                     IF new_row >= row THEN new_row + 1 ELSE new_row,
                                     IF new_col >= col THEN new_col + 1 ELSE new_col)
                     ELSE Zero])])]

RECURSIVE Matrix_determinant(_)
RECURSIVE Matrix_minor(_, _, _)
RECURSIVE Matrix_cofactor(_, _, _)
RECURSIVE DetSum(_, _)

\* the loop of determinant: the sum over rows row..dimension-1 of the first column
DetSum(m, row) ==
    IF row >= m.dimension THEN Zero
    ELSE FAdd(FMul(Matrix_get(m, row, 0), Matrix_cofactor(m, row, 0)), DetSum(m, row + 1))

Matrix_determinant(m) ==
    IF m.dimension = 2
    THEN FSub(FMul(Matrix_get(m, 0, 0), Matrix_get(m, 1, 1)),
              FMul(Matrix_get(m, 0, 1), Matrix_get(m, 1, 0)))
    ELSE DetSum(m, 0)

Matrix_minor(m, row, col) == Matrix_determinant(Matrix_submatrix(m, row, col))

Matrix_cofactor(m, row, col) ==
    FMul(Matrix_minor(m, row, col), IF (row + col) % 2 = 0 THEN One ELSE FNeg(One))

\* Matrix::inverse that divides the cofactor matrix, not its transpose
Matrix_inverse_untransposed(m) ==
    LET determinant == Matrix_determinant(m)
    IN  Strict(determinant,
        [dimension |-> m.dimension,
         grid |-> Filled([i \in 1..4 |-> Filled([j \in 1..4 |->
                 LET row == i - 1
                     col == j - 1
                 IN  IF row < m.dimension /\ col < m.dimension
                         THEN FDiv(Matrix_cofactor(m, row, col), determinant)
                         ELSE Zero])])])

\* determinant # 0 (the program panics otherwise)
Matrix_inverse(m) ==
    LET determinant == Matrix_determinant(m)
    IN  Strict(determinant,
        [dimension |-> m.dimension,
         grid |-> Filled([i \in 1..4 |-> Filled([j \in 1..4 |->
                 LET row == i - 1
                     col == j - 1
                 IN  IF row < m.dimension /\ col < m.dimension
                         THEN FDiv(Matrix_cofactor(m, col, row), determinant)
                         ELSE Zero])])])

\* Matrix * Vector that adds the translation column, as Matrix * Point does
Matrix_mul_vector_translated(m, v) ==
    Strict(<<m, v>>,
    [x |-> FAdd(FAdd(FAdd(FMul(v.x, Matrix_get(m, 0, 0)), FMul(v.y, Matrix_get(m, 0, 1))),
                     FMul(v.z, Matrix_get(m, 0, 2))), Matrix_get(m, 0, 3)),
     y |-> FAdd(FAdd(FAdd(FMul(v.x, Matrix_get(m, 1, 0)), FMul(v.y, Matrix_get(m, 1, 1))),
                     FMul(v.z, Matrix_get(m, 1, 2))), Matrix_get(m, 1, 3)),
     z |-> FAdd(FAdd(FAdd(FMul(v.x, Matrix_get(m, 2, 0)), FMul(v.y, Matrix_get(m, 2, 1))),
                     FMul(v.z, Matrix_get(m, 2, 2))), Matrix_get(m, 2, 3))])

Matrix_mul_vector(m, v) ==
    Strict(<<m, v>>,
    [x |-> FAdd(FAdd(FMul(v.x, Matrix_get(m, 0, 0)), FMul(v.y, Matrix_get(m, 0, 1))),
                FMul(v.z, Matrix_get(m, 0, 2))),
     y |-> FAdd(FAdd(FMul(v.x, Matrix_get(m, 1, 0)), FMul(v.y, Matrix_get(m, 1, 1))),
                FMul(v.z, Matrix_get(m, 1, 2))),
     z |-> FAdd(FAdd(FMul(v.x, Matrix_get(m, 2, 0)), FMul(v.y, Matrix_get(m, 2, 1))),
                FMul(v.z, Matrix_get(m, 2, 2)))])

Matrix_mul_point(m, p) ==
    Strict(<<m, p>>,
    [x |-> FAdd(FAdd(FAdd(FMul(p.x, Matrix_get(m, 0, 0)), FMul(p.y, Matrix_get(m, 0, 1))),
                     FMul(p.z, Matrix_get(m, 0, 2))), Matrix_get(m, 0, 3)),
     y |-> FAdd(FAdd(FAdd(FMul(p.x, Matrix_get(m, 1, 0)), FMul(p.y, Matrix_get(m, 1, 1))),
                     FMul(p.z, Matrix_get(m, 1, 2))), Matrix_get(m, 1, 3)),
     z |-> FAdd(FAdd(FAdd(FMul(p.x, Matrix_get(m, 2, 0)), FMul(p.y, Matrix_get(m, 2, 1))),
                     FMul(p.z, Matrix_get(m, 2, 2))), Matrix_get(m, 2, 3))])

Matrix_translation(v) ==
    [dimension |-> 4,
     grid |-> Filled([i \in 1..4 |-> Filled([j \in 1..4 |->
                 LET row == i - 1
                     col == j - 1
                 IN  IF row = col THEN One
                     ELSE IF col = 3 /\ row = 0 THEN v.x
                     ELSE IF col = 3 /\ row = 1 THEN v.y
                     ELSE IF col = 3 /\ row = 2 THEN v.z
                     ELSE Zero])])]

Matrix_scaling(v) ==
    [dimension |-> 4,
     grid |-> Filled([i \in 1..4 |-> Filled([j \in 1..4 |->
                 LET row == i - 1
                     col == j - 1
                 IN  IF row # col THEN Zero
                     ELSE IF row = 0 THEN v.x
                     ELSE IF row = 1 THEN v.y
                     ELSE IF row = 2 THEN v.z
                     ELSE One])])]

\* an angle is represented by its cosine and sine, the only values the program takes of it
Matrix_rotation_x(angle) ==
    [dimension |-> 4,
     grid |-> Filled([i \in 1..4 |-> Filled([j \in 1..4 |->
                 LET row == i - 1
                     col == j - 1
                 IN  IF row = 0 /\ col = 0 THEN One
                     ELSE IF row = 1 /\ col = 1 THEN angle.cos
                     ELSE IF row = 1 /\ col = 2 THEN FNeg(angle.sin)
                     ELSE IF row = 2 /\ col = 1 THEN angle.sin
                     ELSE IF row = 2 /\ col = 2 THEN angle.cos
                     ELSE IF row = 3 /\ col = 3 THEN One
                     ELSE Zero])])]

RECURSIVE MulSum(_, _, _, _, _)
\* the innermost loop of Matrix * Matrix: grid[row][col] += self[row][i] * other[i][col]
MulSum(a, b, row, col, i) ==
    IF i >= a.dimension THEN Zero
    ELSE FAdd(FMul(Matrix_get(a, row, i), Matrix_get(b, i, col)), MulSum(a, b, row, col, i + 1))

\* Matrix * Matrix with the operands exchanged
Matrix_mul_reversed(a, b) ==
    [dimension |-> a.dimension,
     grid |-> Filled([i \in 1..4 |-> Filled([j \in 1..4 |->
                 LET row == i - 1
                     col == j - 1
                 IN  IF row < a.dimension /\ col < a.dimension
                     THEN MulSum(b, a, row, col, 0) ELSE Zero])])]

\* a.dimension = b.dimension (the program panics otherwise)
Matrix_mul(a, b) ==
    [dimension |-> a.dimension,
     grid |-> Filled([i \in 1..4 |-> Filled([j \in 1..4 |->
                 LET row == i - 1
                     col == j - 1
                 IN  IF row < a.dimension /\ col < a.dimension
                     THEN MulSum(a, b, row, col, 0) ELSE Zero])])]

\* PartialEq for Matrix: every cell of the 4x4 grids equal within EPSILON, and the
\* same dimension
Matrix_eq(self, other) ==
    /\ \A row \in 0..3, col \in 0..3 :
           equal(Matrix_get(self, row, col), Matrix_get(other, row, col))
    /\ self.dimension = other.dimension

(***************************************************************************)
(* Option<T>: None is <<>>, Some(v) is <<v>>                               *)
(***************************************************************************)
None == <<>>

Some(v) == <<v>>

(***************************************************************************)
(* Material and the Phong lighting                                         *)
(***************************************************************************)
Material_new(color, ambient, diffuse, specular, shininess) ==
    [color |-> color, ambient |-> ambient, diffuse |-> diffuse,
     specular |-> specular, shininess |-> shininess]

PointLight_new(position, intensity) == [position |-> position, intensity |-> intensity]

\* Material::lighting without the in_shadow test
Material_lighting_no_shadow(self, point, light, eyev, normal, in_shadow) ==
    LET Lit(effective_color, ambient, light_dot_normal, reflect_dot_eye) ==
            LET factor == FPow(reflect_dot_eye, self.shininess)
                diffuse == IF FLt(light_dot_normal, Zero) THEN Color_black
                       ELSE Color_scale(Color_scale(effective_color, self.diffuse),
                                        light_dot_normal)
                specular == IF FLt(light_dot_normal, Zero) THEN Color_black
                        ELSE IF FLe(reflect_dot_eye, Zero) THEN Color_black
                        ELSE Color_scale(Color_scale(light.intensity, self.specular),
                                         factor)
            IN  Strict(light_dot_normal, Color_add(Color_add(ambient, diffuse), specular))
        Towards(effective_color, lightv) ==
            LET reflectv == Vector_reflect(Vector_neg(lightv), normal)
            IN  Lit(effective_color, Color_scale(effective_color, self.ambient),
                    Vector_dot(lightv, normal), Vector_dot(reflectv, eyev))
    IN  Towards(Color_mul(self.color, light.intensity),
                Vector_normalize(Point_sub(light.position, point)))

\* Material::lighting without the light_dot_normal < 0 test
Material_lighting_no_facing(self, point, light, eyev, normal, in_shadow) ==
    LET Lit(effective_color, ambient, light_dot_normal, reflect_dot_eye) ==
            LET factor == FPow(reflect_dot_eye, self.shininess)
                diffuse == Color_scale(Color_scale(effective_color, self.diffuse),
                                        light_dot_normal)
                specular == IF FLe(reflect_dot_eye, Zero) THEN Color_black
                        ELSE Color_scale(Color_scale(light.intensity, self.specular),
                                         factor)
            IN  IF in_shadow THEN ambient
                ELSE Strict(light_dot_normal, Color_add(Color_add(ambient, diffuse), specular))
        Towards(effective_color, lightv) ==
            LET reflectv == Vector_reflect(Vector_neg(lightv), normal)
            IN  Lit(effective_color, Color_scale(effective_color, self.ambient),
                    Vector_dot(lightv, normal), Vector_dot(reflectv, eyev))
    IN  Towards(Color_mul(self.color, light.intensity),
                Vector_normalize(Point_sub(light.position, point)))

\* Material::lighting without the reflect_dot_eye <= 0 test
Material_lighting_no_reflect_test(self, point, light, eyev, normal, in_shadow) ==
    LET Lit(effective_color, ambient, light_dot_normal, reflect_dot_eye) ==
            LET factor == FPow(reflect_dot_eye, self.shininess)
                diffuse == IF FLt(light_dot_normal, Zero) THEN Color_black
                       ELSE Color_scale(Color_scale(effective_color, self.diffuse),
                                        light_dot_normal)
                specular == IF FLt(light_dot_normal, Zero) THEN Color_black
                        ELSE Color_scale(Color_scale(light.intensity, self.specular),
                                         factor)
            IN  IF in_shadow THEN ambient
                ELSE Strict(light_dot_normal, Color_add(Color_add(ambient, diffuse), specular))
        Towards(effective_color, lightv) ==
            LET reflectv == Vector_reflect(Vector_neg(lightv), normal)
            IN  Lit(effective_color, Color_scale(effective_color, self.ambient),
                    Vector_dot(lightv, normal), Vector_dot(reflectv, eyev))
    IN  Towards(Color_mul(self.color, light.intensity),
                Vector_normalize(Point_sub(light.position, point)))

Material_lighting(self, point, light, eyev, normal, in_shadow) ==
    LET Lit(effective_color, ambient, light_dot_normal, reflect_dot_eye) ==
            LET factor == FPow(reflect_dot_eye, self.shininess)
                diffuse == IF FLt(light_dot_normal, Zero) THEN Color_black
                       ELSE Color_scale(Color_scale(effective_color, self.diffuse),
                                        light_dot_normal)
                specular == IF FLt(light_dot_normal, Zero) THEN Color_black
                        ELSE IF FLe(reflect_dot_eye, Zero) THEN Color_black
                        ELSE Color_scale(Color_scale(light.intensity, self.specular),
                                         factor)
            IN  IF in_shadow THEN ambient
                ELSE Strict(light_dot_normal, Color_add(Color_add(ambient, diffuse), specular))
        Towards(effective_color, lightv) ==
            LET reflectv == Vector_reflect(Vector_neg(lightv), normal)
            IN  Lit(effective_color, Color_scale(effective_color, self.ambient),
                    Vector_dot(lightv, normal), Vector_dot(reflectv, eyev))
    IN  Towards(Color_mul(self.color, light.intensity),
                Vector_normalize(Point_sub(light.position, point)))

(***************************************************************************)
(* Ray, shapes, Intersection                                               *)
(***************************************************************************)
Ray_new(origin, direction) == [origin |-> origin, direction |-> direction]

Ray_position(ray, t) == Point_add(ray.origin, Vector_mul(ray.direction, t))

Ray_transform(ray, transformation) ==
    [origin |-> Matrix_mul_point(transformation, ray.origin),
     direction |-> Matrix_mul_vector(transformation, ray.direction)]

Sphere_new(transform, material) ==
    [shape |-> "Sphere", transform |-> transform, material |-> material]

Plane_new(transform, material) ==
    [shape |-> "Plane", transform |-> transform, material |-> material]

Intersection_new(t, object) == [t |-> t, object |-> object]

\* Sphere::local_intersect that returns the point of tangency once
Sphere_local_intersect_tangent_once(self, ray) ==
    LET Roots(a, b, discriminant) ==
            Strict(discriminant,
            IF FLt(discriminant, Zero) THEN <<>>
            ELSE IF discriminant = Zero
                 THEN <<Intersection_new(FDiv(FNeg(b), FMul(I(2), a)), self)>>
            ELSE <<Intersection_new(FDiv(FSub(FNeg(b), FSqrt(discriminant)), FMul(I(2), a)),
                                    self),
                   Intersection_new(FDiv(FAdd(FNeg(b), FSqrt(discriminant)), FMul(I(2), a)),
                                    self)>>)
        Solve(a, b, c) ==
            Strict(<<a, b, c>>, Roots(a, b, FSub(FMul(b, b), FMul(FMul(I(4), a), c))))
        From(sphere_to_ray) ==
            Strict(sphere_to_ray,
            Solve(Vector_dot(ray.direction, ray.direction),
                  FMul(I(2), Vector_dot(ray.direction, sphere_to_ray)),
                  FSub(Vector_dot(sphere_to_ray, sphere_to_ray), One)))
    IN  Strict(ray, From(Point_sub(ray.origin, Point_new(Zero, Zero, Zero))))

\* ray.direction is not the zero vector
Sphere_local_intersect(self, ray) ==
    LET Roots(a, b, discriminant) ==
            Strict(discriminant,
            IF FLt(discriminant, Zero) THEN <<>>
            ELSE <<Intersection_new(FDiv(FSub(FNeg(b), FSqrt(discriminant)), FMul(I(2), a)),
                                    self),
                   Intersection_new(FDiv(FAdd(FNeg(b), FSqrt(discriminant)), FMul(I(2), a)),
                                    self)>>)
        Solve(a, b, c) ==
            Strict(<<a, b, c>>, Roots(a, b, FSub(FMul(b, b), FMul(FMul(I(4), a), c))))
        From(sphere_to_ray) ==
            Strict(sphere_to_ray,
            Solve(Vector_dot(ray.direction, ray.direction),
                  FMul(I(2), Vector_dot(ray.direction, sphere_to_ray)),
                  FSub(Vector_dot(sphere_to_ray, sphere_to_ray), One)))
    IN  Strict(ray, From(Point_sub(ray.origin, Point_new(Zero, Zero, Zero))))

Sphere_local_normal_at(self, point) ==
    Vector_normalize(Point_sub(point, Point_new(Zero, Zero, Zero)))

\* Plane::local_intersect that tests direction.y without taking its absolute value
Plane_local_intersect_signed(self, ray) ==
    IF FLt(ray.direction.y, EPSILON) THEN <<>>
    ELSE <<Intersection_new(FDiv(FNeg(ray.origin.y), ray.direction.y), self)>>

Plane_local_intersect(self, ray) ==
    IF FLt(FAbs(ray.direction.y), EPSILON) THEN <<>>
    ELSE <<Intersection_new(FDiv(FNeg(ray.origin.y), ray.direction.y), self)>>

Plane_local_normal_at(self, point) == Vector_new(Zero, One, Zero)

\* Object: the enum over the shapes, dispatching to the variant
Object_local_intersect(object, ray) ==
    IF object.shape = "Sphere" THEN Sphere_local_intersect(object, ray)
    ELSE Plane_local_intersect(object, ray)

Object_local_normal_at(object, point) ==
    IF object.shape = "Sphere" THEN Sphere_local_normal_at(object, point)
    ELSE Plane_local_normal_at(object, point)

Shape_normal_at(object, point) ==
    LET object_point == Matrix_mul_point(Matrix_inverse(object.transform), point)
        object_normal == Object_local_normal_at(object, object_point)
        world_normal == Matrix_mul_vector(Matrix_transpose(Matrix_inverse(object.transform)),
                                          object_normal)
    IN  Strict(object_point, Strict(object_normal, Vector_normalize(world_normal)))

Ray_intersect(ray, object) ==
    Object_local_intersect(object, Ray_transform(ray, Matrix_inverse(object.transform)))

RECURSIVE MinBy(_, _)
\* Iterator::min_by over the elements of s after the candidate best: the first minimum wins
MinBy(best, s) ==
    IF s = <<>> THEN best
    ELSE MinBy(IF FLt(Head(s).t, best.t) THEN Head(s) ELSE best, Tail(s))

RECURSIVE MinByLast(_, _)
\* a minimum search in which the last minimum wins
MinByLast(best, s) ==
    IF s = <<>> THEN best
    ELSE MinByLast(IF FLe(Head(s).t, best.t) THEN Head(s) ELSE best, Tail(s))

\* Intersection::hit that returns the last of the nearest intersections
Intersection_hit_last_nearest(intersections) ==
    LET positive == SelectSeq(intersections, LAMBDA i : FLt(Zero, i.t))
    IN  IF positive = <<>> THEN None ELSE Some(MinByLast(Head(positive), Tail(positive)))

\* Intersection::hit that keeps the intersections with t = 0
Intersection_hit_nonnegative(intersections) ==
    LET positive == SelectSeq(intersections, LAMBDA i : FLe(Zero, i.t))
    IN  IF positive = <<>> THEN None ELSE Some(MinBy(Head(positive), Tail(positive)))

Intersection_hit(intersections) ==
    LET positive == SelectSeq(intersections, LAMBDA i : FLt(Zero, i.t))
    IN  IF positive = <<>> THEN None ELSE Some(MinBy(Head(positive), Tail(positive)))

\* Intersection::prepare_computations that keeps the shape's normal when inside
Intersection_prepare_computations_unflipped(self, ray) ==
    LET point == Ray_position(ray, self.t)
        eyev == Vector_neg(ray.direction)
        Facing(normal) ==
            [t |-> self.t, object |-> self.object, point |-> point, eyev |-> eyev,
             normal |-> normal, inside |-> FLt(Vector_dot(normal, eyev), Zero),
             over_point |-> Point_add(point, Vector_mul(normal, EPSILON))]
    IN  Strict(point, Facing(Shape_normal_at(self.object, point)))

\* Intersection::prepare_computations whose over_point is offset along the shape's
\* normal, before it is flipped
Intersection_prepare_computations_shape_offset(self, ray) ==
    LET point == Ray_position(ray, self.t)
        eyev == Vector_neg(ray.direction)
        Computed(inside, shape_normal, normal) ==
            [t |-> self.t, object |-> self.object, point |-> point, eyev |-> eyev,
             normal |-> normal, inside |-> inside,
             over_point |-> Point_add(point, Vector_mul(shape_normal, EPSILON))]
        Facing(normal) ==
            LET inside == FLt(Vector_dot(normal, eyev), Zero)
            IN  Strict(normal, Computed(inside, normal,
                                        IF inside THEN Vector_neg(normal) ELSE normal))
    IN  Strict(point, Facing(Shape_normal_at(self.object, point)))

Intersection_prepare_computations(self, ray) ==
    LET point == Ray_position(ray, self.t)
        eyev == Vector_neg(ray.direction)
        Computed(inside, normal) ==
            [t |-> self.t, object |-> self.object, point |-> point, eyev |-> eyev,
             normal |-> normal, inside |-> inside,
             over_point |-> Point_add(point, Vector_mul(normal, EPSILON))]
        Facing(normal) ==
            LET inside == FLt(Vector_dot(normal, eyev), Zero)
            IN  Strict(normal, Computed(inside, IF inside THEN Vector_neg(normal) ELSE normal))
    IN  Strict(point, Facing(Shape_normal_at(self.object, point)))


(***************************************************************************)
(* Pattern.  A call that panics has the outcome Panics; a call that        *)
(* returns v has the outcome Returns(v).                                   *)
(***************************************************************************)
Panics == [panic |-> TRUE]

Returns(v) == [panic |-> FALSE, value |-> v]

\* f64::floor followed by the cast to isize
Floor(a) == a[1] \div a[2]

\* the % of the integers: the remainder has the sign of n
Rem(n, m) == IF n >= 0 THEN n % m ELSE -((-n) % m)

StripePattern_new(color1, color2) ==
    [color1 |-> color1, color2 |-> color2, transform |-> Matrix_default]

\* StripePattern::color_at that casts x to isize without floor: towards zero
StripePattern_color_at_truncated(self, point) ==
    IF Rem(IF point.x[1] >= 0 THEN point.x[1] \div point.x[2]
           ELSE -((-point.x[1]) \div point.x[2]), 2) = 0
    THEN self.color1 ELSE self.color2

StripePattern_color_at(self, point) ==
    IF Rem(Floor(point.x), 2) = 0 THEN self.color1 ELSE self.color2

CheckerPattern_new(color1, color2) ==
    [color1 |-> color1, color2 |-> color2, transform |-> Matrix_default]

\* CheckerPattern::color_at that takes the odd sums to be those of remainder 1
CheckerPattern_color_at_remainder_one(self, point) ==
    IF Rem(Floor(point.x) + Floor(point.y) + Floor(point.z), 2) = 1 THEN self.color2
    ELSE self.color1

CheckerPattern_color_at(self, point) ==
    IF Rem(Floor(point.x) + Floor(point.y) + Floor(point.z), 2) = 0 THEN self.color1
    ELSE self.color2

Pattern_None == [variant |-> "None"]

Pattern_Stripe(pattern) == [variant |-> "Stripe", pattern |-> pattern]

Pattern_get_transform(self) ==
    IF self.variant = "None" THEN Matrix_default ELSE self.pattern.transform

\* Pattern::color_at that samples the None variant as black
Pattern_color_at_black(self, point) ==
    IF self.variant = "None" THEN Returns(Color_black)
    ELSE Returns(StripePattern_color_at(self.pattern, point))

Pattern_color_at(self, point) ==
    IF self.variant = "None" THEN Panics
    ELSE Returns(StripePattern_color_at(self.pattern, point))

\* Object: the transform of the variant's shape
Object_get_transform(object) == object.transform

\* the transforms of the object and of the pattern are invertible (inverse panics
\* otherwise)
Patterned_color_at_object(self, object, point) ==
    LET InPattern(pattern_point) == Strict(pattern_point, Pattern_color_at(self, pattern_point))
        InObject(object_point) ==
            Strict(object_point,
            InPattern(Matrix_mul_point(Matrix_inverse(Pattern_get_transform(self)),
                                       object_point)))
    IN  InObject(Matrix_mul_point(Matrix_inverse(Object_get_transform(object)), point))

(***************************************************************************)
(* World                                                                   *)
(***************************************************************************)
World_new(objects, light) == [objects |-> objects, light |-> light]

RECURSIVE InsertSorted(_, _, _)
\* e placed in the sorted list s; among elements that compare equal it goes last
\* ("stable") or first ("reversed")
InsertSorted(s, e, order) ==
    IF s = <<>> THEN <<e>>
    ELSE IF FLt(e.t, Head(s).t) \/ (order = "reversed" /\ e.t = Head(s).t)
         THEN <<e>> \o s
         ELSE <<Head(s)>> \o InsertSorted(Tail(s), e, order)

RECURSIVE SortUnstableBy(_, _)
\* slice::sort_unstable_by on the key t: a sorted permutation; the order of the
\* elements that compare equal is the build's
SortUnstableBy(s, order) ==
    IF s = <<>> THEN <<>>
    ELSE InsertSorted(SortUnstableBy(SubSeq(s, 1, Len(s) - 1), order), s[Len(s)], order)

RECURSIVE Appended(_, _)
\* the loop of World::intersect: intersections.append(ray.intersect(object)), in order
Appended(objects, ray) ==
    IF objects = <<>> THEN <<>>
    ELSE Ray_intersect(ray, Head(objects)) \o Appended(Tail(objects), ray)

\* World::intersect that does not sort
World_intersect_unsorted(self, ray) == Appended(self.objects, ray)

\* World::intersect whose order of equal elements changes from one render to the next
World_intersect_unrepeatable(self, ray) ==
    SortUnstableBy(Appended(self.objects, ray), IF run = 0 THEN "stable" ELSE "reversed")

World_intersect(self, ray) == SortUnstableBy(Appended(self.objects, ray), unstable_order)

\* World::is_shadowed that does not compare the hit with the distance to the light
World_is_shadowed_any_hit(self, point) ==
    LET direction == Point_sub(self.light.position, point)
        ray == Ray_new(point, Vector_normalize(direction))
        Within(hit) == hit # None
    IN  Strict(ray, Within(Intersection_hit(World_intersect(self, ray))))

World_is_shadowed(self, point) ==
    LET direction == Point_sub(self.light.position, point)
        distance == Vector_magnitude(direction)
        ray == Ray_new(point, Vector_normalize(direction))
        Within(hit) == IF hit = None THEN FALSE ELSE FLe(hit[1].t, distance)
    IN  Strict(ray, Within(Intersection_hit(World_intersect(self, ray))))

World_shade_hit(self, comps) ==
    Strict(comps,
           Material_lighting(comps.object.material, comps.point, self.light, comps.eyev,
                             comps.normal, World_is_shadowed(self, comps.over_point)))

\* World::color_at that takes the first intersection of the sorted list for the hit
World_color_at_first(self, ray) ==
    LET Shade(intersections) ==
            IF intersections = <<>> THEN Color_black
            ELSE World_shade_hit(self,
                                 Intersection_prepare_computations(intersections[1], ray))
    IN  Strict(ray, Shade(World_intersect(self, ray)))

World_color_at(self, ray) ==
    LET Shade(hit) ==
            IF hit = None THEN Color_black
            ELSE World_shade_hit(self, Intersection_prepare_computations(hit[1], ray))
    IN  Strict(ray, Shade(Intersection_hit(World_intersect(self, ray))))

(***************************************************************************)
(* Canvas: a Grid<Color> of height rows and width columns                  *)
(***************************************************************************)
Canvas_new(width, height) ==
    [width |-> width, height |-> height,
     canvas |-> [row \in 0..(height - 1) |-> [col \in 0..(width - 1) |-> Color_black]]]

\* Grid::get_mut(row, col) is Some: the cell exists
Grid_has(grid, row, col) == row \in DOMAIN grid /\ col \in DOMAIN grid[row]

Canvas_write_pixel_row(self, px, py, c) ==
    [self EXCEPT !.canvas[py] = [col \in DOMAIN self.canvas[py] |-> c]]

\* Canvas::write_pixel where get_mut(y, x) is Some (unwrap panics otherwise)
Canvas_write_pixel(self, px, py, c) == [self EXCEPT !.canvas[py][px] = c]

\* f64::round: to the nearest integer, halves away from zero
FRound(a) == IF a[1] >= 0 THEN (2 * a[1] + a[2]) \div (2 * a[2])
             ELSE -((2 * (-a[1]) + a[2]) \div (2 * a[2]))

\* f64::clamp(min, max)
FClamp(a, min, max) == IF FLt(a, min) THEN min ELSE IF FLt(max, a) THEN max ELSE a

\* format!("{}", n) of a non-negative integer: its decimal digits, a String
\* being the sequence of its characters
RECURSIVE Decimal(_)
Decimal(n) ==
    LET digit == <<"0", "1", "2", "3", "4", "5", "6", "7", "8", "9">>[(n % 10) + 1]
    IN  IF n < 10 THEN <<digit>> ELSE Decimal(n \div 10) \o <<digit>>

\* (component.clamp(0.0, 1.0) * 255.0).round() as isize
Canvas_sample_truncated(component) == Floor(FMul(FClamp(component, Zero, One), I(255)))

Canvas_sample(component) == FRound(FMul(FClamp(component, Zero, One), I(255)))

\* row_buf of Canvas::to_ppm: the formatted r, g, b of each cell of the row
Canvas_row_buf(self, row) ==
    [k \in 1..(3 * self.width) |->
        LET Component(cell) ==
                IF (k - 1) % 3 = 0 THEN cell.r ELSE IF (k - 1) % 3 = 1 THEN cell.g ELSE cell.b
        IN  Decimal(Canvas_sample(Component(self.canvas[row][(k - 1) \div 3])))]

\* the loop over row_buf of Canvas::to_ppm from its k-th element on: ppm with
\* the lines of the row pushed, pixel_row being the line under construction
RECURSIVE Canvas_pixel_rows_unseparated(_, _, _, _)
Canvas_pixel_rows_unseparated(row_buf, k, pixel_row, ppm) ==
    IF k > Len(row_buf) THEN Append(ppm, pixel_row)
    ELSE IF Len(pixel_row) + Len(row_buf[k]) > 70
         THEN Canvas_pixel_rows_unseparated(row_buf, k + 1, row_buf[k], Append(ppm, pixel_row))
         ELSE Canvas_pixel_rows_unseparated(row_buf, k + 1,
                  (IF pixel_row = <<>> THEN <<>> ELSE Append(pixel_row, " ")) \o row_buf[k], ppm)

RECURSIVE Canvas_pixel_rows(_, _, _, _)
Canvas_pixel_rows(row_buf, k, pixel_row, ppm) ==
    IF k > Len(row_buf) THEN Append(ppm, pixel_row)
    ELSE IF Len(pixel_row) + Len(row_buf[k]) + 1 > 70
         THEN Canvas_pixel_rows(row_buf, k + 1, row_buf[k], Append(ppm, pixel_row))
         ELSE Canvas_pixel_rows(row_buf, k + 1,
                  (IF pixel_row = <<>> THEN <<>> ELSE Append(pixel_row, " ")) \o row_buf[k], ppm)

\* the loop over the rows of Canvas::to_ppm from row on
RECURSIVE Canvas_rows(_, _, _)
Canvas_rows(self, row, ppm) ==
    IF row >= self.height THEN ppm
    ELSE Canvas_rows(self, row + 1, Canvas_pixel_rows(Canvas_row_buf(self, row), 1, <<>>, ppm))

\* Canvas::to_ppm: the header, the pixel rows and an empty line
Canvas_to_ppm(self) ==
    Append(Canvas_rows(self, 0,
               << <<"P", "3">>, Decimal(self.width) \o <<" ">> \o Decimal(self.height),
                  <<"2", "5", "5">> >>),
           <<>>)

(***************************************************************************)
(* Camera.  field_of_view is represented by tan(field_of_view / 2), the    *)
(* only value the program takes of it.                                     *)
(***************************************************************************)
\* Camera::new that takes the wide canvas's branch whatever the aspect is
Camera_new_wide(h_size, v_size, field_of_view) ==
    LET half_view == field_of_view.tan_half
        aspect == FDiv(I(h_size), I(v_size))
        half_width == half_view
        half_height == FDiv(half_view, aspect)
        pixel_size == FDiv(FMul(half_width, I(2)), I(h_size))
    IN  [h_size |-> h_size, v_size |-> v_size, field_of_view |-> field_of_view,
         transform |-> Matrix_default, half_width |-> half_width,
         half_height |-> half_height, pixel_size |-> pixel_size]

Camera_new(h_size, v_size, field_of_view) ==
    LET half_view == field_of_view.tan_half
        aspect == FDiv(I(h_size), I(v_size))
        half_width == IF FLt(One, aspect) THEN half_view ELSE FMul(half_view, aspect)
        half_height == IF FLt(One, aspect) THEN FDiv(half_view, aspect) ELSE half_view
        pixel_size == FDiv(FMul(half_width, I(2)), I(h_size))
    IN  [h_size |-> h_size, v_size |-> v_size, field_of_view |-> field_of_view,
         transform |-> Matrix_default, half_width |-> half_width,
         half_height |-> half_height, pixel_size |-> pixel_size]

Camera_ray_for_pixel(self, px, py) ==
    LET xoffset == FMul(FAdd(I(px), <<1, 2>>), self.pixel_size)
        yoffset == FMul(FAdd(I(py), <<1, 2>>), self.pixel_size)
        world_x == FSub(self.half_width, xoffset)
        world_y == FSub(self.half_height, yoffset)
        From(pixel, origin) ==
            Strict(<<pixel, origin>>,
                   Ray_new(origin, Vector_normalize(Point_sub(pixel, origin))))
        Through(transform_inv) ==
            Strict(transform_inv,
                   From(Matrix_mul_point(transform_inv,
                                         Point_new(world_x, world_y, FNeg(One))),
                        Matrix_mul_point(transform_inv, Point_new(Zero, Zero, Zero))))
    IN  Through(Matrix_inverse(self.transform))

(***************************************************************************)
(* Inputs.  The scenes lie along the z axis: sphere centres, the plane's   *)
(* normal, the lights and the rays' origins, so that every hit point, its  *)
(* normal and its shadow ray have rational coordinates, and within a few   *)
(* units of each other, so that the squares of coordinates that carry an   *)
(* EPSILON fit the model checker's integers.                               *)
(***************************************************************************)
MaxObjects == 2

MaxHitLen == 3

MaxPixel == 3

MaxSize == 3

\* the number of matrix operations applied one to the result of the other
MaxChain == 2

MaxRuns == 2

Half == <<1, 2>>

Origin == Point_new(Zero, Zero, Zero)

PlusZ == Vector_new(Zero, Zero, One)

MinusZ == Vector_new(Zero, Zero, FNeg(One))

\* a quarter turn: cos = 0, sin = 1
QuarterTurn == [cos |-> Zero, sin |-> One]

MatteA == Material_new(Color_new(<<4, 5>>, One, <<3, 5>>), <<1, 10>>, <<7, 10>>, <<1, 5>>, 2)

ShinyB == Material_new(Color_white, <<1, 10>>, <<9, 10>>, <<9, 10>>, 1)

\* the unit sphere centred at (0, 0, -2)
SphereA == Sphere_new(Matrix_translation(Vector_new(Zero, Zero, I(-2))), MatteA)

\* the sphere of radius 2 centred at (0, 0, -3): its front touches SphereA's at z = -1
SphereB ==
    Sphere_new(Matrix_mul(Matrix_translation(Vector_new(Zero, Zero, I(-3))),
                          Matrix_scaling(Vector_new(I(2), I(2), I(2)))), ShinyB)

\* the unit sphere centred at (0, 0, -5): its front touches PlaneP
SphereC == Sphere_new(Matrix_translation(Vector_new(Zero, Zero, I(-5))), ShinyB)

\* the unit sphere centred at (0, 0, 3), behind the origin
SphereE == Sphere_new(Matrix_translation(Vector_new(Zero, Zero, I(3))), MatteA)

\* the plane z = -4, its normal towards +z
PlaneP ==
    Plane_new(Matrix_mul(Matrix_translation(Vector_new(Zero, Zero, I(-4))),
                         Matrix_rotation_x(QuarterTurn)), MatteA)

RECURSIVE Pick(_, _, _)
Pick(catalog, S, k) ==
    IF k > Len(catalog) THEN <<>>
    ELSE (IF k \in S THEN <<catalog[k]>> ELSE <<>>) \o Pick(catalog, S, k + 1)

\* the lists of at most n objects of the catalog, in the catalog's order
SubSeqs(catalog, n) ==
    {Pick(catalog, S, 1) : S \in {T \in SUBSET (1..Len(catalog)) : Cardinality(T) <= n}}

Range(s) == {s[k] : k \in 1..Len(s)}

SeqsUpTo(S, n) == UNION {[1..k -> S] : k \in 0..n}

WorldCatalog == <<SphereA, SphereB, SphereC, PlaneP>>

\* in front of every object
NearLight == PointLight_new(Point_new(Zero, Zero, <<-1, 2>>), Color_white)

\* inside SphereB, between SphereA and PlaneP
InnerLight == PointLight_new(Point_new(Zero, Zero, <<-7, 2>>), Color_new(One, Half, Half))

\* on the surfaces of SphereA and SphereB
SurfaceLight == PointLight_new(Point_new(Zero, Zero, I(-1)), Color_white)

WorldsOf(catalog, lights) ==
    {World_new(objects, light) : objects \in SubSeqs(catalog, MaxObjects),
                                 light \in lights}

Worlds == WorldsOf(WorldCatalog, {NearLight, InnerLight})

ShadowCatalog == <<SphereA, SphereB, PlaneP, SphereE>>

ShadowWorlds == WorldsOf(ShadowCatalog, {NearLight, SurfaceLight})

PrepareWorlds == WorldsOf(WorldCatalog, {NearLight})

\* rays along the z axis: from the front, from the centre of SphereA, from between
\* SphereA and PlaneP, from the back of SphereC
AxisRays ==
    {Ray_new(Point_new(Zero, Zero, z), d) :
        z \in {Zero, I(-2), <<-7, 2>>, I(-6)}, d \in {PlusZ, MinusZ}}

\* a ray tangent to SphereB, a ray parallel to PlaneP through the centre of SphereB
\* and tangent to SphereA, a ray that misses every object
OtherRays ==
    {Ray_new(Point_new(I(2), Zero, Zero), MinusZ),
     Ray_new(Point_new(I(-3), Zero, I(-3)), Vector_new(One, Zero, Zero)),
     Ray_new(Point_new(Zero, I(5), Zero), Vector_new(Zero, One, Zero))}

MissRay == Ray_new(Point_new(Zero, I(5), Zero), Vector_new(Zero, One, Zero))

\* points on the z axis, and a point off it at distance 5 of the light
ShadowPoints(light) ==
    {Point_new(Zero, Zero, z) : z \in {Zero, I(1), I(-2), <<-7, 2>>, I(-7)}}
        \cup {Point_add(light.position, Vector_new(I(4), Zero, I(-3)))}

HitTs == {I(-1), Zero, Half, One, I(2)}

HitIntersections == {Intersection_new(t, o) : t \in HitTs, o \in {SphereA, PlaneP}}

PrepareTs == {One, I(4)}

LightingLights ==
    {PointLight_new(Point_new(Zero, Zero, I(-10)), Color_white),
     PointLight_new(Point_new(Zero, Zero, I(10)), Color_white),
     PointLight_new(Point_new(Zero, I(6), I(-8)), Color_new(One, Half, Half))}

LightingVectors ==
    {MinusZ, PlusZ, Vector_new(Zero, One, Zero),
     Vector_new(Zero, <<3, 5>>, <<-4, 5>>), Vector_new(Zero, <<-3, 5>>, <<-4, 5>>),
     Vector_new(Zero, <<4, 5>>, <<3, 5>>)}

\* the cameras whose pixel rays have rational directions: tan(fov / 2) is 1, 2, 4
Cameras ==
    {Camera_new(1, 1, [tan_half |-> One]),
     Camera_new(3, 1, [tan_half |-> I(2)]),
     Camera_new(2, 2, [tan_half |-> I(4)])}

RenderCatalog == <<SphereA, SphereB, SphereC>>

RenderWorlds == WorldsOf(RenderCatalog, {NearLight, InnerLight})

\* the planes local_intersect is called on: the xz plane of the object space
PlaneQ == Plane_new(Matrix_default, ShinyB)

\* rays in the object space of a plane: origins in, above and below the plane,
\* directions parallel to it, within EPSILON of parallel, at EPSILON, and steeper
PlaneRays ==
    {Ray_new(Point_new(ox, oy, Zero), Vector_new(dx, dy, One)) :
        ox \in {Zero, One}, oy \in {Zero, One, I(-2)}, dx \in {Zero, One},
        dy \in {Zero, <<1, 20000>>, <<-1, 20000>>, EPSILON, FNeg(EPSILON), One,
                <<-1, 2>>}}

\* rays in the object space of a sphere, along z and of any length, at the distances
\* 0, 3/5, 4/5 (through the sphere), 1 (tangent) and 2 (missing) of its centre,
\* starting before, inside and after it; and rays along a diagonal
SphereRays ==
    {Ray_new(Point_new(Zero, oy, oz), Vector_new(Zero, Zero, k)) :
        oy \in {Zero, <<3, 5>>, <<-4, 5>>, One, I(-1), I(2)},
        oz \in {I(-5), Zero, Half, I(5)},
        k \in {One, I(2), Half, I(-1)}}
    \cup {Ray_new(Point_new(Zero, Zero, oz), Vector_new(Zero, I(3), I(4))) :
            oz \in {Zero, I(-5)}}

\* a Vec<f64> of whole numbers
Floats(s) == [k \in 1..Len(s) |-> I(s[k])]

\* 4x4 matrices with a non-zero determinant: those of the matrix_inv test, the
\* transforms of the scenes, a shear, and a scaling that EPSILON does not tell from
\* a singular one
InvertibleMatrices ==
    {Matrix_new(4, Floats(<<-5, 2, 6, -8,  1, -5, 1, 8,  7, 7, -6, -7,  1, -3, 7, 4>>)),
     Matrix_new(4, Floats(<<8, -5, 9, 2,  7, 5, 6, 1,  -6, 0, 9, 6,  -3, 0, -9, -4>>)),
     Matrix_new(4, Floats(<<9, 3, 0, 9,  -5, -2, -6, -3,  -4, 9, 6, 4,  -7, 6, 6, 2>>)),
     Matrix_new(4, Floats(<<1, 2, 0, 0,  0, 1, 3, 0,  0, 0, 1, -1,  1, 0, 0, 1>>)),
     Matrix_default,
     Matrix_translation(Vector_new(One, I(-2), Half)),
     Matrix_scaling(Vector_new(I(2), Half, I(-1))),
     Matrix_scaling(Vector_new(<<1, 20000>>, One, One)),
     Matrix_rotation_x(QuarterTurn),
     SphereB.transform,
     PlaneP.transform}

\* matrices whose determinant is 0: a row of zeros, a scaling by 0, two equal
\* columns, and singular matrices of dimension 2 and 3
SingularMatrices ==
    {Matrix_new(4, Floats(<<-4, 2, -2, -3,  9, 6, 2, 6,  0, -5, 1, -5,  0, 0, 0, 0>>)),
     Matrix_scaling(Vector_new(One, Zero, I(2))),
     Matrix_new(4, Floats(<<1, 1, 2, 3,  2, 2, 0, 1,  3, 3, 1, 0,  4, 4, 5, 2>>)),
     Matrix_new(3, Floats(<<1, 2, 3,  4, 5, 6,  7, 8, 9>>)),
     Matrix_new(2, Floats(<<1, 2,  2, 4>>))}

\* the operands of Matrix * Matrix: matrices of dimension 2, 3 and 4
MulMatrices ==
    {Matrix_new(2, Floats(<<-3, 5,  1, -2>>)),
     Matrix_eye(2),
     Matrix_new(3, Floats(<<-3, 5, 0,  1, -2, -7,  0, 1, 1>>)),
     Matrix_eye(3),
     Matrix_new(4, Floats(<<1, 2, 3, 4,  5, 6, 7, 8,  9, 8, 7, 6,  5, 4, 3, 2>>)),
     Matrix_new(4, Floats(<<-2, 1, 2, 3,  3, 2, 1, -1,  4, 3, 6, 5,  1, 2, 7, 8>>)),
     Matrix_default}

\* the (width, height) of the canvases written to
CanvasSizes == {<<1, 1>>, <<3, 1>>, <<1, 2>>, <<2, 2>>}

WriteColors == {Color_white, Color_new(One, Zero, Zero)}

\* a stripe pattern of the default colors, and one of other colors, moved by 1/2
\* and twice as wide
StripeW == StripePattern_new(Color_white, Color_black)

StripeR ==
    [StripePattern_new(Color_new(One, Zero, Zero), Color_new(Zero, Zero, One))
        EXCEPT !.transform = Matrix_mul(Matrix_translation(Vector_new(Half, Zero, Zero)),
                                        Matrix_scaling(Vector_new(I(2), One, One)))]

Patterns == {Pattern_None, Pattern_Stripe(StripeW), Pattern_Stripe(StripeR)}

\* points on both sides of x = 0, on and between the stripes' edges
PatternPoints ==
    {Point_new(x, Zero, z) :
        x \in {I(-3), <<-3, 2>>, I(-1), <<-1, 10>>, Zero, Half, <<9, 10>>, One, <<5, 2>>, I(2)},
        z \in {Zero, I(-2)}}

\* the objects a pattern is sampled on: moved and scaled along x, and of the scenes
PatternObjects ==
    {Sphere_new(Matrix_translation(Vector_new(One, Zero, Zero)), MatteA),
     Sphere_new(Matrix_scaling(Vector_new(Half, One, One)), MatteA),
     SphereB, PlaneP}

\* fields of view: tan(field_of_view / 2) is 1/2, 1 or 2
FieldsOfView == {[tan_half |-> Half], [tan_half |-> One], [tan_half |-> I(2)]}

\* the vectors translated by
TranslationVectors ==
    {Vector_new(I(5), I(-3), I(2)), Vector_new(Zero, Zero, I(-3)),
     Vector_new(One, I(-2), Half)}

\* the factors of the transforms: translations, a scaling, a rotation, the identity,
\* and the first operand of the matrix_mul test, whose last row is not (0, 0, 0, 1)
TransformFactors ==
    {Matrix_translation(v) : v \in TranslationVectors}
    \cup {Matrix_scaling(Vector_new(I(2), Half, I(-1))), Matrix_rotation_x(QuarterTurn),
          Matrix_default,
          Matrix_new(4, Floats(<<1, 2, 3, 4,  5, 6, 7, 8,  9, 8, 7, 6,  5, 4, 3, 2>>))}

\* the transforms applied: the factors and the products of two factors
Transforms == TransformFactors \cup {Matrix_mul(a, b) : a, b \in TransformFactors}

\* the coordinates of the points and of the vectors transformed
TransformTuples ==
    {Point_new(Zero, Zero, Zero), Point_new(I(-3), I(4), I(5)),
     Point_new(One, Zero, Zero), Point_new(Half, I(-1), I(2)), Point_new(Zero, One, I(-1))}

\* points whose coordinates lie on both sides of 0, on whole numbers and between
SamplePoints ==
    {Point_new(x, y, z) :
        x \in {I(-2), <<-3, 2>>, I(-1), <<-1, 2>>, Zero, <<9, 10>>, One, <<5, 2>>},
        y \in {<<-3, 2>>, Zero, <<1, 2>>, I(2)},
        z \in {<<-1, 10>>, Zero, <<3, 2>>}}

SampleColors == {<<Color_white, Color_black>>, <<Color_new(One, Zero, Zero), Color_white>>}

\* canvas sizes for Canvas::to_ppm: rows of 3 to 36 samples, the 10 x 2 canvas of
\* tests::ppm_long_lines among them
PpmSizes == {<<1, 1>>, <<3, 1>>, <<2, 3>>, <<5, 3>>, <<6, 1>>, <<10, 2>>, <<12, 1>>}

\* the colors written to the cells of a canvas, repeated in row-major order:
\* components below 0, above 1, at 0.5 (tests::ppm_pixel_data) and samples of
\* one, two and three digits
PpmPalettes ==
    {<<Color_new(One, FDiv(I(4), I(5)), FDiv(I(3), I(5)))>>,
     <<Color_black>>,
     <<Color_new(FDiv(I(3), I(2)), Half, FNeg(Half)), Color_new(One, FDiv(I(4), I(5)), FDiv(I(3), I(5)))>>,
     <<Color_new(FDiv(I(1), I(510)), FDiv(I(1), I(1000)), FDiv(I(99), I(100))), Color_white,
       Color_new(Half, Zero, One)>>,
     <<Color_new(FDiv(I(1), I(10)), FDiv(I(1), I(25)), FDiv(I(199), I(510)))>>,
     <<Color_black, Color_black, Color_black, Color_black, Color_black,
       Color_new(Zero, FDiv(I(1), I(25)), Zero), Color_black>>}

\* write_pixel(x, y, palette color) for the cells from the k-th on in row-major
\* order, as the loops of tests::ppm_long_lines do
RECURSIVE Canvas_painted(_, _, _)
Canvas_painted(self, k, palette) ==
    IF k >= self.width * self.height THEN self
    ELSE Canvas_painted(Canvas_write_pixel(self, k % self.width, k \div self.width,
                                           palette[(k % Len(palette)) + 1]),
                        k + 1, palette)

\* the matrices whose determinant is taken: dimension 1, dimension 2, the
\* matrices of tests::matrix_det and those of the inverse and product calls
DeterminantMatrices ==
    {Matrix_new(1, Floats(<<a>>)) : a \in {-3, 0, 1, 5}}
    \cup {Matrix_new(2, Floats(<<a, b, c, d>>)) : a \in {-1, 0, 2}, b \in {-1, 0, 2}, c \in {1, 3}, d \in {1, 3}}
    \cup {Matrix_new(2, Floats(<<1, 5, -3, 2>>)),
          Matrix_new(3, Floats(<<1, 2, 6,  -5, 8, -4,  2, 6, 4>>)),
          Matrix_new(4, Floats(<<-2, -8, 3, 5,  -3, 1, 7, 3,  1, 2, -9, 6,  -6, 7, 7, -9>>))}
    \cup InvertibleMatrices \cup SingularMatrices \cup MulMatrices

\* the matrices that chains of matrix operations start from and take as second
\* operands: Matrix::new of dimension 0 to 4 (one with determinant 1, one
\* singular) and Matrix::eye of dimension 0 to 4
NewMatrices ==
    {Matrix_new(0, <<>>),
     Matrix_new(1, Floats(<<5>>)),
     Matrix_new(2, Floats(<<-3, 5,  1, -2>>)),
     Matrix_new(3, Floats(<<2, 1, 0,  1, 1, 0,  0, -1, 1>>)),
     Matrix_new(4, Floats(<<1, 1, 0, 0,  0, 1, 1, 0,  0, 0, 1, 1,  0, 0, 0, 1>>)),
     Matrix_new(4, Floats(<<1, 1, 2, 3,  2, 2, 0, 1,  3, 3, 1, 0,  4, 4, 5, 2>>))}

EyeMatrices == {Matrix_eye(dimension) : dimension \in 0..4}

\* Matrix::new on the block of m with delta added to its last cell
Nudged(m, delta) ==
    Matrix_new(m.dimension,
               [k \in 1..(m.dimension * m.dimension) |->
                   LET cell == Matrix_get(m, (k - 1) \div m.dimension, (k - 1) % m.dimension)
                   IN  IF k = m.dimension * m.dimension THEN FAdd(cell, delta) ELSE cell])

\* the matrices compared with the matrix m: the operands, the zero matrix of
\* dimension 2, and m's block with one cell moved by less than EPSILON and by
\* EPSILON
EqMatrices(m) ==
    NewMatrices \cup EyeMatrices
    \cup {Matrix_new(2, Floats(<<0, 0, 0, 0>>)), Nudged(m, <<1, 20000>>), Nudged(m, EPSILON)}

(***************************************************************************)
(* The state machine: a caller that makes one library call at a time, and  *)
(* Camera::render, one step per loop iteration.                            *)
(***************************************************************************)
NoCall == [op |-> "none"]

Idle ==
    /\ call = NoCall
    /\ pc = "idle"
    /\ pixel_x = 0
    /\ pixel_y = 0
    /\ image = Canvas_new(0, 0)
    /\ writes = <<>>
    /\ run = 0
    /\ first = Canvas_new(0, 0)

InitAt(w, c) ==
    /\ world = w
    /\ camera = c
    /\ unstable_order \in {"stable", "reversed"}
    /\ Idle

InitHit == InitAt(World_new(<<>>, NearLight), Camera_new(1, 1, [tan_half |-> One]))

InitWorld == \E w \in Worlds : InitAt(w, Camera_new(1, 1, [tan_half |-> One]))

InitShadow == \E w \in ShadowWorlds : InitAt(w, Camera_new(1, 1, [tan_half |-> One]))

InitPrepare == \E w \in PrepareWorlds : InitAt(w, Camera_new(1, 1, [tan_half |-> One]))

InitRender == \E w \in RenderWorlds, c \in Cameras : InitAt(w, c)

Init == InitHit \/ InitWorld \/ InitShadow \/ InitRender

\* the variables a library call leaves alone
others == <<world, camera, unstable_order, pc, pixel_x, pixel_y, image, writes, run, first>>

\* the call returns to the caller
Return ==
    /\ call # NoCall
    /\ pc = "idle"
    /\ call' = NoCall
    /\ UNCHANGED others

CallHit ==
    /\ call = NoCall
    /\ pc = "idle"
    /\ \E intersections \in SeqsUpTo(HitIntersections, MaxHitLen) :
           call' = [op |-> "hit", intersections |-> intersections,
                    ret |-> Intersection_hit(intersections)]
    /\ UNCHANGED others

CallIntersect ==
    /\ call = NoCall
    /\ pc = "idle"
    /\ \E ray \in AxisRays \cup OtherRays :
           call' = [op |-> "intersect", ray |-> ray, ret |-> World_intersect(world, ray)]
    /\ UNCHANGED others

CallIsShadowed ==
    /\ call = NoCall
    /\ pc = "idle"
    /\ \E point \in ShadowPoints(world.light) :
           call' = [op |-> "is_shadowed", point |-> point,
                    ret |-> World_is_shadowed(world, point)]
    /\ UNCHANGED others

CallColorAt ==
    /\ call = NoCall
    /\ pc = "idle"
    /\ \E ray \in AxisRays \cup {MissRay} :
           call' = [op |-> "color_at", ray |-> ray, ret |-> World_color_at(world, ray)]
    /\ UNCHANGED others

CallPlaneLocalIntersect ==
    /\ call = NoCall
    /\ pc = "idle"
    /\ \E self \in {PlaneP, PlaneQ}, ray \in PlaneRays :
           call' = [op |-> "Plane::local_intersect", self |-> self, ray |-> ray,
                    ret |-> Plane_local_intersect(self, ray)]
    /\ UNCHANGED others

CallSphereLocalIntersect ==
    /\ call = NoCall
    /\ pc = "idle"
    /\ \E self \in {SphereA, SphereB}, ray \in SphereRays :
           call' = [op |-> "Sphere::local_intersect", self |-> self, ray |-> ray,
                    ret |-> Sphere_local_intersect(self, ray)]
    /\ UNCHANGED others

\* Matrix::inverse that returns the identity for a matrix whose determinant is 0
CallInverse_default ==
    /\ call = NoCall
    /\ pc = "idle"
    /\ \E m \in InvertibleMatrices \cup SingularMatrices :
           call' = [op |-> "Matrix::inverse", self |-> m,
                    ret |-> IF Matrix_determinant(m) = Zero THEN Matrix_default
                            ELSE Matrix_inverse(m)]
    /\ UNCHANGED others

\* if determinant == 0.0 { panic!() }: the call does not return
CallInverse ==
    /\ call = NoCall
    /\ pc = "idle"
    /\ \E m \in InvertibleMatrices \cup SingularMatrices :
           IF Matrix_determinant(m) = Zero
           THEN /\ call' = [op |-> "Matrix::inverse", self |-> m]
                /\ pc' = "panic"
           ELSE /\ call' = [op |-> "Matrix::inverse", self |-> m,
                            ret |-> Matrix_inverse(m)]
                /\ pc' = pc
    /\ UNCHANGED <<world, camera, unstable_order, pixel_x, pixel_y, image, writes, run, first>>

\* Matrix * Matrix that multiplies over self.dimension whatever other.dimension is
CallMul_unchecked ==
    /\ call = NoCall
    /\ pc = "idle"
    /\ \E self \in MulMatrices, other \in MulMatrices :
           call' = [op |-> "Matrix::mul", self |-> self, other |-> other,
                    ret |-> Matrix_mul(self, other)]
    /\ UNCHANGED others

\* if self.dimension != other.dimension { panic!() }: the call does not return
CallMul ==
    /\ call = NoCall
    /\ pc = "idle"
    /\ \E self \in MulMatrices, other \in MulMatrices :
           IF self.dimension # other.dimension
           THEN /\ call' = [op |-> "Matrix::mul", self |-> self, other |-> other]
                /\ pc' = "panic"
           ELSE /\ call' = [op |-> "Matrix::mul", self |-> self, other |-> other,
                            ret |-> Matrix_mul(self, other)]
                /\ pc' = pc
    /\ UNCHANGED <<world, camera, unstable_order, pixel_x, pixel_y, image, writes, run, first>>

CallCanvasNew ==
    /\ call = NoCall
    /\ pc = "idle"
    /\ \E size \in CanvasSizes :
           /\ call' = [op |-> "Canvas::new", width |-> size[1], height |-> size[2]]
           /\ image' = Canvas_new(size[1], size[2])
    /\ writes' = <<>>
    /\ UNCHANGED <<world, camera, unstable_order, pc, pixel_x, pixel_y, run, first>>

\* Canvas::write_pixel on a grid that is one flat vector indexed by y * width + x
CallWritePixel_flat ==
    /\ call = NoCall
    /\ pc = "idle"
    /\ \E x \in 0..MaxPixel, y \in 0..MaxPixel, c \in WriteColors :
           /\ call' = [op |-> "Canvas::write_pixel", before |-> image,
                       x |-> x, y |-> y, c |-> c]
           /\ IF y * image.width + x < image.width * image.height
              THEN /\ image' = Canvas_write_pixel(image, (y * image.width + x) % image.width,
                                                  (y * image.width + x) \div image.width, c)
                   /\ pc' = pc
              ELSE /\ pc' = "panic"
                   /\ image' = image
    /\ UNCHANGED <<world, camera, unstable_order, pixel_x, pixel_y, writes, run, first>>

\* the history of a canvas after write_pixel(px, py, c): the last write to each
\* cell, the cells from the k-th on in row-major order
RECURSIVE LastWrites(_, _, _, _, _)
LastWrites(log, px, py, c, k) ==
    IF k >= (MaxPixel + 1) * (MaxPixel + 1) THEN <<>>
    ELSE LET Earlier(x, y) == {i \in DOMAIN log : log[i].x = x /\ log[i].y = y}
             Last(x, y) ==
                 IF x = px /\ y = py THEN <<[x |-> px, y |-> py, color |-> c]>>
                 ELSE IF Earlier(x, y) = {} THEN <<>>
                 ELSE <<log[CHOOSE i \in Earlier(x, y) : TRUE]>>
         IN  Last(k % (MaxPixel + 1), k \div (MaxPixel + 1)) \o LastWrites(log, px, py, c, k + 1)

\* self.canvas.get_mut(y, x).unwrap(): None, and the panic, out of the grid
CallWritePixel ==
    /\ call = NoCall
    /\ pc = "idle"
    /\ \E x \in 0..MaxPixel, y \in 0..MaxPixel, c \in WriteColors :
           /\ call' = [op |-> "Canvas::write_pixel", before |-> image,
                       x |-> x, y |-> y, c |-> c]
           /\ IF Grid_has(image.canvas, y, x)
              THEN /\ image' = Canvas_write_pixel(image, x, y, c)
                   /\ writes' = LastWrites(writes, x, y, c, 0)
                   /\ pc' = pc
              ELSE /\ pc' = "panic"
                   /\ image' = image
                   /\ writes' = writes
    /\ UNCHANGED <<world, camera, unstable_order, pixel_x, pixel_y, run, first>>

CallPatternColorAt ==
    /\ call = NoCall
    /\ pc = "idle"
    /\ \E self \in Patterns, point \in PatternPoints :
           LET Outcome(o) ==
                   IF o.panic
                   THEN /\ call' = [op |-> "Pattern::color_at", self |-> self,
                                    point |-> point]
                        /\ pc' = "panic"
                   ELSE /\ call' = [op |-> "Pattern::color_at", self |-> self,
                                    point |-> point, ret |-> o.value]
                        /\ pc' = pc
           IN  Outcome(Pattern_color_at(self, point))
    /\ UNCHANGED <<world, camera, unstable_order, pixel_x, pixel_y, image, writes, run, first>>

CallColorAtObject ==
    /\ call = NoCall
    /\ pc = "idle"
    /\ \E self \in Patterns, object \in PatternObjects, point \in PatternPoints :
           LET Outcome(o) ==
                   IF o.panic
                   THEN /\ call' = [op |-> "Patterned::color_at_object", self |-> self,
                                    object |-> object, point |-> point]
                        /\ pc' = "panic"
                   ELSE /\ call' = [op |-> "Patterned::color_at_object", self |-> self,
                                    object |-> object, point |-> point, ret |-> o.value]
                        /\ pc' = pc
           IN  Outcome(Patterned_color_at_object(self, object, point))
    /\ UNCHANGED <<world, camera, unstable_order, pixel_x, pixel_y, image, writes, run, first>>

CallCameraNew ==
    /\ call = NoCall
    /\ pc = "idle"
    /\ \E h_size \in 1..MaxSize, v_size \in 1..MaxSize, field_of_view \in FieldsOfView :
           /\ call' = [op |-> "Camera::new", h_size |-> h_size, v_size |-> v_size,
                       field_of_view |-> field_of_view,
                       ret |-> Camera_new(h_size, v_size, field_of_view)]
           /\ camera' = Camera_new(h_size, v_size, field_of_view)
    /\ UNCHANGED <<world, unstable_order, pc, pixel_x, pixel_y, image, writes, run, first>>

\* camera.h_size = h_size: the field is pub, the assignment is all that happens
CameraSetHSize ==
    /\ call = NoCall
    /\ pc = "idle"
    /\ \E h_size \in 1..MaxSize : camera' = [camera EXCEPT !.h_size = h_size]
    /\ UNCHANGED <<world, unstable_order, call, pc, pixel_x, pixel_y, image, writes, run, first>>

\* camera.v_size = v_size
CameraSetVSize ==
    /\ call = NoCall
    /\ pc = "idle"
    /\ \E v_size \in 1..MaxSize : camera' = [camera EXCEPT !.v_size = v_size]
    /\ UNCHANGED <<world, unstable_order, call, pc, pixel_x, pixel_y, image, writes, run, first>>

\* camera.field_of_view = field_of_view
CameraSetFieldOfView ==
    /\ call = NoCall
    /\ pc = "idle"
    /\ \E field_of_view \in FieldsOfView :
           camera' = [camera EXCEPT !.field_of_view = field_of_view]
    /\ UNCHANGED <<world, unstable_order, call, pc, pixel_x, pixel_y, image, writes, run, first>>

CallMulPoint ==
    /\ call = NoCall
    /\ pc = "idle"
    /\ \E self \in Transforms, other \in TransformTuples :
           call' = [op |-> "Matrix::mul_point", self |-> self, other |-> other,
                    ret |-> Matrix_mul_point(self, other)]
    /\ UNCHANGED others

CallMulVector ==
    /\ call = NoCall
    /\ pc = "idle"
    /\ \E self \in Transforms, other \in TransformTuples :
           call' = [op |-> "Matrix::mul_vector", self |-> self, other |-> other,
                    ret |-> Matrix_mul_vector(self, other)]
    /\ UNCHANGED others

\* the direction of a ray is not the zero vector
CallRayTransform ==
    /\ call = NoCall
    /\ pc = "idle"
    /\ \E transformation \in TransformFactors, origin \in TransformTuples,
          direction \in TransformTuples \ {Point_new(Zero, Zero, Zero)} :
           call' = [op |-> "Ray::transform", self |-> Ray_new(origin, direction),
                    transformation |-> transformation,
                    ret |-> Ray_transform(Ray_new(origin, direction), transformation)]
    /\ UNCHANGED others

CallStripeColorAt ==
    /\ call = NoCall
    /\ pc = "idle"
    /\ \E colors \in SampleColors, point \in SamplePoints :
           call' = [op |-> "StripePattern::color_at",
                    self |-> StripePattern_new(colors[1], colors[2]), point |-> point,
                    ret |-> StripePattern_color_at(StripePattern_new(colors[1], colors[2]),
                                                   point)]
    /\ UNCHANGED others

CallCheckerColorAt ==
    /\ call = NoCall
    /\ pc = "idle"
    /\ \E colors \in SampleColors, point \in SamplePoints :
           call' = [op |-> "CheckerPattern::color_at",
                    self |-> CheckerPattern_new(colors[1], colors[2]), point |-> point,
                    ret |-> CheckerPattern_color_at(CheckerPattern_new(colors[1], colors[2]),
                                                    point)]
    /\ UNCHANGED others

\* Canvas::new followed by a write_pixel to every cell
CallCanvasPaint ==
    /\ call = NoCall
    /\ pc = "idle"
    /\ \E size \in PpmSizes, palette \in PpmPalettes :
           /\ call' = [op |-> "Canvas::paint", width |-> size[1], height |-> size[2],
                       palette |-> palette]
           /\ image' = Canvas_painted(Canvas_new(size[1], size[2]), 0, palette)
    /\ UNCHANGED <<world, camera, unstable_order, pc, pixel_x, pixel_y, writes, run, first>>

\* Canvas::to_ppm on the canvas
CallToPpm ==
    /\ call = NoCall
    /\ pc = "idle"
    /\ call' = [op |-> "Canvas::to_ppm", self |-> image, ret |-> Canvas_to_ppm(image)]
    /\ UNCHANGED others

\* Matrix::determinant on a matrix built by Matrix::new
CallDeterminant ==
    /\ call = NoCall
    /\ pc = "idle"
    /\ \E m \in DeterminantMatrices :
           call' = [op |-> "Matrix::determinant", self |-> m, ret |-> Matrix_determinant(m)]
    /\ UNCHANGED others

\* a call that returned a matrix, to which the next operation is applied
Chained == pc = "idle" /\ "steps" \in DOMAIN call /\ call.steps < MaxChain

\* Matrix::new
CallMatrixNew ==
    /\ call = NoCall
    /\ pc = "idle"
    /\ \E m \in NewMatrices : call' = [op |-> "Matrix::new", ret |-> m, steps |-> 0]
    /\ UNCHANGED others

\* Matrix::eye
CallEye ==
    /\ call = NoCall
    /\ pc = "idle"
    /\ \E dimension \in 0..4 :
           call' = [op |-> "Matrix::eye", ret |-> Matrix_eye(dimension), steps |-> 0]
    /\ UNCHANGED others

\* Matrix::transpose on the matrix returned last
CallTranspose ==
    /\ Chained
    /\ call' = [op |-> "Matrix::transpose", self |-> call.ret,
                ret |-> Matrix_transpose(call.ret), steps |-> call.steps + 1]
    /\ UNCHANGED others

\* Matrix::submatrix on the matrix returned last: panics unless row and col are
\* below the dimension
CallSubmatrix ==
    /\ Chained
    /\ \E row \in 0..3, col \in 0..3 :
           IF row >= call.ret.dimension \/ col >= call.ret.dimension
           THEN /\ call' = [op |-> "Matrix::submatrix", self |-> call.ret,
                            row |-> row, col |-> col]
                /\ pc' = "panic"
           ELSE /\ call' = [op |-> "Matrix::submatrix", self |-> call.ret,
                            row |-> row, col |-> col,
                            ret |-> Matrix_submatrix(call.ret, row, col),
                            steps |-> call.steps + 1]
                /\ pc' = pc
    /\ UNCHANGED <<world, camera, unstable_order, pixel_x, pixel_y, image, writes, run, first>>

\* Matrix::inverse on the matrix returned last
CallInverseChained ==
    /\ Chained
    /\ IF Matrix_determinant(call.ret) = Zero
       THEN /\ call' = [op |-> "Matrix::inverse", self |-> call.ret]
            /\ pc' = "panic"
       ELSE /\ call' = [op |-> "Matrix::inverse", self |-> call.ret,
                        ret |-> Matrix_inverse(call.ret), steps |-> call.steps + 1]
            /\ pc' = pc
    /\ UNCHANGED <<world, camera, unstable_order, pixel_x, pixel_y, image, writes, run, first>>

\* Matrix * Matrix with the matrix returned last as the first or second operand
CallMulChained ==
    /\ Chained
    /\ \E m \in NewMatrices \cup EyeMatrices, last_first \in BOOLEAN :
           IF call.ret.dimension # m.dimension
           THEN /\ call' = [op |-> "Matrix::mul", self |-> call.ret, other |-> m]
                /\ pc' = "panic"
           ELSE /\ call' = [op |-> "Matrix::mul",
                            self |-> IF last_first THEN call.ret ELSE m,
                            other |-> IF last_first THEN m ELSE call.ret,
                            ret |-> IF last_first THEN Matrix_mul(call.ret, m)
                                    ELSE Matrix_mul(m, call.ret),
                            steps |-> call.steps + 1]
                /\ pc' = pc
    /\ UNCHANGED <<world, camera, unstable_order, pixel_x, pixel_y, image, writes, run, first>>

\* PartialEq::eq of the matrix returned last with another matrix
CallMatrixEq ==
    /\ pc = "idle"
    /\ "steps" \in DOMAIN call
    /\ \E m \in EqMatrices(call.ret) :
           call' = [op |-> "Matrix::eq", self |-> call.ret, other |-> m,
                    after |-> call.steps, ret |-> Matrix_eq(call.ret, m)]
    /\ UNCHANGED others

\* Intersection::hit on the list World::intersect returns, as World::color_at and
\* World::is_shadowed call it
CallHitOfIntersect ==
    /\ call = NoCall
    /\ pc = "idle"
    /\ \E ray \in AxisRays \cup OtherRays :
           call' = [op |-> "hit(intersect)", ray |-> ray,
                    intersections |-> World_intersect(world, ray),
                    ret |-> Intersection_hit(World_intersect(world, ray))]
    /\ UNCHANGED others

\* the intersections of the ray with an object of the world and, along the axis,
\* intersections made by hand with Intersection::new; the point is not the centre
\* of a sphere
CallPrepare ==
    /\ call = NoCall
    /\ pc = "idle"
    /\ \E ray \in AxisRays \cup OtherRays, object \in Range(world.objects) :
           \E t \in (IF ray \in AxisRays THEN PrepareTs ELSE {})
                        \cup {i.t : i \in Range(Ray_intersect(ray, object))} :
               /\ object.shape = "Sphere" =>
                      Matrix_mul_point(Matrix_inverse(object.transform),
                                       Ray_position(ray, t)) # Origin
               /\ call' = [op |-> "prepare_computations",
                           self |-> Intersection_new(t, object), ray |-> ray,
                           ret |-> Intersection_prepare_computations(
                                       Intersection_new(t, object), ray)]
    /\ UNCHANGED others

CallLighting ==
    /\ call = NoCall
    /\ pc = "idle"
    /\ \E material \in {MatteA, ShinyB}, light \in LightingLights,
          eyev \in LightingVectors, normal \in LightingVectors, in_shadow \in BOOLEAN :
           call' = [op |-> "lighting", self |-> material, point |-> Origin,
                    light |-> light, eyev |-> eyev, normal |-> normal,
                    in_shadow |-> in_shadow,
                    ret |-> Material_lighting(material, Origin, light, eyev, normal,
                                              in_shadow)]
    /\ UNCHANGED others

\* let mut image = Canvas::new(self.h_size, self.v_size)
RenderStart ==
    /\ pc = "idle"
    /\ call = NoCall
    /\ run < MaxRuns
    /\ pc' = "render"
    /\ image' = Canvas_new(camera.h_size, camera.v_size)
    /\ pixel_x' = 0
    /\ pixel_y' = 0
    /\ writes' = <<>>
    /\ UNCHANGED <<world, camera, unstable_order, call, run, first>>

\* the body of the inner loop with image.write_pixel(y, x, color)
RenderPixel_transposed ==
    /\ pc = "render"
    /\ pixel_y < camera.v_size
    /\ pixel_x < camera.h_size
    /\ LET Write(color) ==
               /\ writes' = Append(writes, [x |-> pixel_y, y |-> pixel_x, color |-> color])
               /\ IF Grid_has(image.canvas, pixel_x, pixel_y)
                  THEN /\ image' = Canvas_write_pixel(image, pixel_y, pixel_x, color)
                       /\ pixel_x' = pixel_x + 1
                       /\ pc' = pc
                  ELSE /\ pc' = "panic"
                       /\ UNCHANGED <<image, pixel_x>>
       IN  Write(World_color_at(world, Camera_ray_for_pixel(camera, pixel_x, pixel_y)))
    /\ UNCHANGED <<world, camera, unstable_order, call, pixel_y, run, first>>

\* the body of the inner loop, for x < h_size: write_pixel panics out of the grid
RenderPixel ==
    /\ pc = "render"
    /\ pixel_y < camera.v_size
    /\ pixel_x < camera.h_size
    /\ LET Write(color) ==
               /\ writes' = Append(writes, [x |-> pixel_x, y |-> pixel_y, color |-> color])
               /\ IF Grid_has(image.canvas, pixel_y, pixel_x)
                  THEN /\ image' = Canvas_write_pixel(image, pixel_x, pixel_y, color)
                       /\ pixel_x' = pixel_x + 1
                       /\ pc' = pc
                  ELSE /\ pc' = "panic"
                       /\ UNCHANGED <<image, pixel_x>>
       IN  Write(World_color_at(world, Camera_ray_for_pixel(camera, pixel_x, pixel_y)))
    /\ UNCHANGED <<world, camera, unstable_order, call, pixel_y, run, first>>

\* the inner loop ends: the next y
RenderRow ==
    /\ pc = "render"
    /\ pixel_y < camera.v_size
    /\ pixel_x >= camera.h_size
    /\ pixel_y' = pixel_y + 1
    /\ pixel_x' = 0
    /\ UNCHANGED <<world, camera, unstable_order, call, pc, image, writes, run, first>>

\* the outer loop ends: render returns image
RenderReturn ==
    /\ pc = "render"
    /\ pixel_y >= camera.v_size
    /\ pc' = "done"
    /\ run' = run + 1
    /\ first' = IF run = 0 THEN image ELSE first
    /\ UNCHANGED <<world, camera, unstable_order, call, pixel_x, pixel_y, image, writes>>

\* the caller renders the same camera and world again
RenderAgain ==
    /\ pc = "done"
    /\ run < MaxRuns
    /\ pc' = "idle"
    /\ UNCHANGED <<world, camera, unstable_order, call, pixel_x, pixel_y, image, writes,
                   run, first>>

NextHit == CallHit \/ Return

NextIntersect == CallIntersect \/ Return

NextShadow == CallIsShadowed \/ Return

NextColorAt == CallColorAt \/ Return

NextPrepare == CallPrepare \/ Return

NextPlane == CallPlaneLocalIntersect \/ Return

NextSphere == CallSphereLocalIntersect \/ Return

NextMatrix == CallInverse \/ CallMul \/ Return

NextCanvas == CallCanvasNew \/ CallWritePixel \/ Return

NextPattern == CallPatternColorAt \/ CallColorAtObject \/ Return

NextCamera ==
    CallCameraNew \/ CameraSetHSize \/ CameraSetVSize \/ CameraSetFieldOfView \/ Return

NextTransform == CallMulPoint \/ CallMulVector \/ CallRayTransform \/ Return

NextSample == CallStripeColorAt \/ CallCheckerColorAt \/ Return

NextPpm == CallCanvasPaint \/ CallToPpm \/ Return

NextDeterminant == CallDeterminant \/ Return

NextChain ==
    \/ CallMatrixNew
    \/ CallEye
    \/ CallTranspose
    \/ CallSubmatrix
    \/ CallInverseChained
    \/ CallMulChained
    \/ CallMatrixEq
    \/ Return

NextNearest == CallHit \/ CallHitOfIntersect \/ Return

NextLighting == CallLighting \/ Return

NextRender == RenderStart \/ RenderPixel \/ RenderRow \/ RenderReturn \/ RenderAgain

Next ==
    \/ CallHit
    \/ CallIntersect
    \/ CallIsShadowed
    \/ CallColorAt
    \/ CallPrepare
    \/ CallLighting
    \/ CallPlaneLocalIntersect
    \/ CallSphereLocalIntersect
    \/ CallInverse
    \/ CallMul
    \/ CallCanvasNew
    \/ CallWritePixel
    \/ CallPatternColorAt
    \/ CallColorAtObject
    \/ CallCameraNew
    \/ CameraSetHSize
    \/ CameraSetVSize
    \/ CameraSetFieldOfView
    \/ CallMulPoint
    \/ CallMulVector
    \/ CallRayTransform
    \/ CallStripeColorAt
    \/ CallCheckerColorAt
    \/ CallCanvasPaint
    \/ CallToPpm
    \/ CallDeterminant
    \/ CallMatrixNew
    \/ CallEye
    \/ CallTranspose
    \/ CallSubmatrix
    \/ CallInverseChained
    \/ CallMulChained
    \/ CallMatrixEq
    \/ CallHitOfIntersect
    \/ Return
    \/ NextRender

SpecHit == InitHit /\ [][NextHit]_vars

SpecIntersect == InitWorld /\ [][NextIntersect]_vars

SpecShadow == InitShadow /\ [][NextShadow]_vars

SpecColorAt == InitWorld /\ [][NextColorAt]_vars

SpecPrepare == InitPrepare /\ [][NextPrepare]_vars

SpecLighting == InitHit /\ [][NextLighting]_vars

SpecPlane == InitHit /\ [][NextPlane]_vars

SpecSphere == InitHit /\ [][NextSphere]_vars

SpecMatrix == InitHit /\ [][NextMatrix]_vars

SpecCanvas == InitHit /\ [][NextCanvas]_vars

SpecPattern == InitHit /\ [][NextPattern]_vars

SpecCamera == InitHit /\ [][NextCamera]_vars

SpecTransform == InitHit /\ [][NextTransform]_vars

SpecSample == InitHit /\ [][NextSample]_vars

SpecPpm == InitHit /\ [][NextPpm]_vars

SpecDeterminant == InitHit /\ [][NextDeterminant]_vars

SpecChain == InitHit /\ [][NextChain]_vars

\* worlds in which two objects touch on the z axis (SphereA and SphereB at
\* z = -1, SphereC and PlaneP at z = -4), and a world of one object
NearestWorlds ==
    {World_new(<<SphereA, SphereB>>, NearLight), World_new(<<SphereC, PlaneP>>, NearLight),
     World_new(<<SphereB>>, NearLight)}

InitNearest == \E w \in NearestWorlds : InitAt(w, Camera_new(1, 1, [tan_half |-> One]))

SpecNearest == InitNearest /\ [][NextNearest]_vars

SpecRender == InitRender /\ [][NextRender]_vars

\* where render is: before, in the loop at (pixel_x, pixel_y), returned or panicked
position == <<pc, pixel_y, pixel_x>>

\* an iteration of the loops of render moves to the next x, to the next y, or returns
RenderAdvance ==
    /\ pc = "render"
    /\ \/ /\ pixel_y < camera.v_size
          /\ pixel_x < camera.h_size
          /\ pc' = pc
          /\ pixel_y' = pixel_y
          /\ pixel_x' = pixel_x + 1
       \/ /\ pixel_y < camera.v_size
          /\ pixel_x >= camera.h_size
          /\ pc' = pc
          /\ pixel_y' = pixel_y + 1
          /\ pixel_x' = 0
       \/ /\ pixel_y >= camera.v_size
          /\ pc' = "done"
          /\ pixel_y' = pixel_y
          /\ pixel_x' = pixel_x

\* the render loop is sequential code: an iteration that can be taken is taken
FairSpecRender == SpecRender /\ WF_position(RenderAdvance)

Spec == Init /\ [][Next]_vars

(***************************************************************************)
(* Properties                                                              *)
(***************************************************************************)
\* the indices of the intersections of s in front of the ray's origin
PositiveOf(s) == {k \in DOMAIN s : FLt(Zero, s[k].t)}

\* the indices of the intersections of s in front of the origin and nearest to it
NearestOf(s) == {k \in PositiveOf(s) : \A j \in PositiveOf(s) : FLe(s[k].t, s[j].t)}

\* the number of times e occurs in s
CountIn(s, e) == Cardinality({k \in DOMAIN s : s[k] = e})

RECURSIVE SumOfCounts(_, _)
\* the sum over the objects of the number of intersections of the ray with each
SumOfCounts(objects, ray) ==
    IF objects = <<>> THEN 0
    ELSE Len(Ray_intersect(ray, Head(objects))) + SumOfCounts(Tail(objects), ray)

\* C1: Intersection::hit returns None exactly when no element of the list has t > 0;
\* otherwise it returns an element of the list whose t is > 0 and is at most the t
\* of every element with t > 0, so an element with t <= 0 is never returned.
C1_HitIsNearestPositive ==
    call.op = "hit" =>
        /\ (call.ret = None) <=> (PositiveOf(call.intersections) = {})
        /\ call.ret # None =>
               \E k \in NearestOf(call.intersections) :
                   call.ret = Some(call.intersections[k])

\* a list that begins with t = 0 and whose nearest positive element is its last
C1_HitSkipsZero ==
    /\ call.op = "hit"
    /\ Len(call.intersections) = 3
    /\ call.intersections[1].t = Zero
    /\ FLt(Zero, call.intersections[3].t)
    /\ FLt(call.intersections[3].t, call.intersections[2].t)
    /\ call.ret = Some(call.intersections[3])

\* C2: World::intersect returns a permutation of the concatenation of
\* ray.intersect(object) over the objects of the world (the same elements as many
\* times, its length the sum of the per-object counts), in non-decreasing order of t.
C2_IntersectSortedPermutation ==
    call.op = "intersect" =>
        LET all == Appended(world.objects, call.ray)
        IN  /\ Len(call.ret) = SumOfCounts(world.objects, call.ray)
            /\ \A e \in Range(all) \cup Range(call.ret) :
                   CountIn(call.ret, e) = CountIn(all, e)
            /\ \A k \in 1..(Len(call.ret) - 1) : FLe(call.ret[k].t, call.ret[k + 1].t)

\* two objects, the second met before the first: the concatenation is not sorted
C2_IntersectReorders ==
    /\ call.op = "intersect"
    /\ Len(world.objects) = 2
    /\ Len(call.ret) = 4
    /\ call.ret # Appended(world.objects, call.ray)
    /\ FLt(call.ret[1].t, Zero)
    /\ FLt(Zero, call.ret[4].t)

\* the ray that World::is_shadowed casts from the point towards the light
ShadowRay(light, point) ==
    Ray_new(point, Vector_normalize(Point_sub(light.position, point)))

\* the values of t at which the ray meets the objects
TsOf(objects, ray) ==
    UNION {{i.t : i \in Range(Ray_intersect(ray, objects[k]))} : k \in DOMAIN objects}

\* C3: World::is_shadowed(point) is true if and only if the nearest intersection
\* with t > 0 of the ray from the point towards the light has
\* t <= distance(point, light): intersections with t <= 0 and objects whose nearest
\* positive intersection lies beyond the light do not shadow the point.
C3_ShadowedIffNearestWithinDistance ==
    call.op = "is_shadowed" =>
        LET distance == Vector_magnitude(Point_sub(world.light.position, call.point))
            ts == TsOf(world.objects, ShadowRay(world.light, call.point))
            positive == {t \in ts : FLt(Zero, t)}
        IN  call.ret <=> \E t \in positive : /\ \A u \in positive : FLe(t, u)
                                              /\ FLe(t, distance)

\* the light lies between the point and the only objects the ray meets
C3_ObjectBeyondLight ==
    /\ call.op = "is_shadowed"
    /\ ~call.ret
    /\ LET distance == Vector_magnitude(Point_sub(world.light.position, call.point))
           ts == TsOf(world.objects, ShadowRay(world.light, call.point))
       IN  /\ \E t \in ts : FLt(distance, t)
           /\ \E t \in ts : FLe(t, Zero)

\* C4: World::color_at(ray) is black when no intersection of the ray with the world
\* has t > 0 (an empty world, a miss, or every intersection at t <= 0); otherwise it
\* is shade_hit(prepare_computations(hit, ray)) for the hit, an intersection nearest
\* in front of the origin.
C4_ColorAtShadesTheHit ==
    call.op = "color_at" =>
        LET intersections == World_intersect(world, call.ray)
        IN  IF PositiveOf(intersections) = {} THEN call.ret = Color_black
            ELSE \E k \in NearestOf(intersections) :
                     /\ Intersection_hit(intersections) = Some(intersections[k])
                     /\ call.ret = World_shade_hit(world,
                            Intersection_prepare_computations(intersections[k], call.ray))

\* a ray from inside an object: the first intersection is behind the origin, the hit
\* is a later one, and its colour is not black
C4_ColorAtFromInside ==
    /\ call.op = "color_at"
    /\ call.ret # Color_black
    /\ LET intersections == World_intersect(world, call.ray)
       IN  /\ intersections # <<>>
           /\ FLt(intersections[1].t, Zero)
           /\ PositiveOf(intersections) # {}

\* the colour Camera::render computes for the pixel (px, py)
PixelColor(px, py) == World_color_at(world, Camera_ray_for_pixel(camera, px, py))

\* the indices of the calls of write_pixel of this render at (px, py)
WritesAt(px, py) == {k \in DOMAIN writes : writes[k].x = px /\ writes[k].y = py}

\* the canvas render returns: h_size wide, v_size high, every cell written exactly
\* once, with the colour of its pixel
RenderReturned ==
    pc = "done" =>
        /\ image.width = camera.h_size
        /\ image.height = camera.v_size
        /\ DOMAIN image.canvas = 0..(camera.v_size - 1)
        /\ \A py \in 0..(camera.v_size - 1) :
               /\ DOMAIN image.canvas[py] = 0..(camera.h_size - 1)
               /\ \A px \in 0..(camera.h_size - 1) :
                      /\ Cardinality(WritesAt(px, py)) = 1
                      /\ \A k \in WritesAt(px, py) : writes[k].color = PixelColor(px, py)
                      /\ image.canvas[py][px] = PixelColor(px, py)

\* write_pixel is called on cells of the canvas only, and does not panic
WritesInRange ==
    /\ pc # "panic"
    /\ \A k \in DOMAIN writes : /\ writes[k].x \in 0..(camera.h_size - 1)
                                /\ writes[k].y \in 0..(camera.v_size - 1)

\* C5: Camera::render terminates and returns a canvas of width h_size and height
\* v_size in which every cell (x, y), 0 <= x < h_size and 0 <= y < v_size, was
\* written exactly once, with world.color_at(ray_for_pixel(x, y)); no cell outside
\* that range is ever written.
C5_RenderWritesEveryPixelOnce ==
    /\ [](RenderReturned /\ WritesInRange)
    /\ (pc = "render") ~> (pc = "done")

\* a returned image three pixels wide whose centre pixel is lit and whose side
\* pixels are black
C5_RenderedThreePixels ==
    /\ pc = "done"
    /\ camera.h_size = 3
    /\ Len(writes) = 3
    /\ image.canvas[0][1] # Color_black
    /\ image.canvas[0][0] = Color_black

AmbientOf(c) == Color_scale(Color_mul(c.self.color, c.light.intensity), c.self.ambient)

LightvOf(c) == Vector_normalize(Point_sub(c.light.position, c.point))

LightDotNormalOf(c) == Vector_dot(LightvOf(c), c.normal)

ReflectDotEyeOf(c) == Vector_dot(Vector_reflect(Vector_neg(LightvOf(c)), c.normal), c.eyev)

DiffuseOf(c) ==
    Color_scale(Color_scale(Color_mul(c.self.color, c.light.intensity), c.self.diffuse),
                LightDotNormalOf(c))

\* C7: when in_shadow is true, Material::lighting returns exactly the ambient term
\* color * light.intensity * ambient, whatever the eye vector and the normal.
C7_InShadowIsAmbient ==
    (call.op = "lighting" /\ call.in_shadow) => call.ret = AmbientOf(call)

\* in shadow, a surface that faces the light with the eye on the reflection: out of
\* the shadow it would get diffuse and specular light
C7_InShadowFacingLight ==
    /\ call.op = "lighting"
    /\ call.in_shadow
    /\ FLt(Zero, LightDotNormalOf(call))
    /\ FLt(Zero, ReflectDotEyeOf(call))
    /\ call.ret = AmbientOf(call)

\* C8: when in_shadow is false and dot(lightv, normal) < 0, Material::lighting
\* returns exactly the ambient term: diffuse and specular are black.
C8_FacingAwayIsAmbient ==
    (call.op = "lighting" /\ ~call.in_shadow /\ FLt(LightDotNormalOf(call), Zero))
        => call.ret = AmbientOf(call)

\* out of the shadow, a surface that faces away from the light, the eye on the
\* reflection
C8_FacingAway ==
    /\ call.op = "lighting"
    /\ ~call.in_shadow
    /\ FLt(LightDotNormalOf(call), Zero)
    /\ FLt(Zero, ReflectDotEyeOf(call))

\* C9: when in_shadow is false and dot(lightv, normal) >= 0, Material::lighting adds
\* a specular term only if dot(reflect(-lightv, normal), eyev) > 0; when that dot
\* product is <= 0 the result is exactly ambient + diffuse, with
\* diffuse = color * light.intensity * diffuse * dot(lightv, normal).
C9_SpecularOnlyTowardsEye ==
    (call.op = "lighting" /\ ~call.in_shadow /\ FLe(Zero, LightDotNormalOf(call))) =>
        /\ FLe(ReflectDotEyeOf(call), Zero) =>
               call.ret = Color_add(AmbientOf(call), DiffuseOf(call))
        /\ call.ret # Color_add(AmbientOf(call), DiffuseOf(call)) =>
               FLt(Zero, ReflectDotEyeOf(call))

\* out of the shadow, a surface that faces the light, the reflection pointing away
\* from the eye
C9_ReflectionAwayFromEye ==
    /\ call.op = "lighting"
    /\ ~call.in_shadow
    /\ FLt(Zero, LightDotNormalOf(call))
    /\ FLt(ReflectDotEyeOf(call), Zero)
    /\ call.ret # AmbientOf(call)

\* C10: Intersection::prepare_computations sets inside exactly when
\* dot(shape.normal_at(point), -ray.direction) < 0, and returns the shape's normal
\* negated when inside, unchanged otherwise, so that dot(normal, eyev) >= 0.
C10_NormalFacesEye ==
    call.op = "prepare_computations" =>
        LET shape_normal == Shape_normal_at(call.self.object,
                                            Ray_position(call.ray, call.self.t))
            facing == Vector_dot(shape_normal, Vector_neg(call.ray.direction))
        IN  /\ call.ret.inside <=> FLt(facing, Zero)
            /\ call.ret.normal = IF FLt(facing, Zero) THEN Vector_neg(shape_normal)
                                 ELSE shape_normal
            /\ FLe(Zero, Vector_dot(call.ret.normal, call.ret.eyev))

\* an intersection of the ray with the scaled sphere, met from inside
C10_HitFromInside ==
    /\ call.op = "prepare_computations"
    /\ call.self.object = SphereB
    /\ call.self \in Range(Ray_intersect(call.ray, call.self.object))
    /\ call.ret.inside
    /\ FLt(Zero, Vector_dot(call.ret.normal, call.ret.eyev))

\* C11: Intersection::prepare_computations computes over_point as
\* point + normal * EPSILON with the returned normal (flipped when inside), so that
\* over_point is on the eye's side of the surface: dot(over_point - point, eyev) >= 0.
C11_OverPointOnEyeSide ==
    call.op = "prepare_computations" =>
        /\ call.ret.point = Ray_position(call.ray, call.self.t)
        /\ call.ret.over_point =
               Point_add(call.ret.point, Vector_mul(call.ret.normal, EPSILON))
        /\ FLe(Zero, Vector_dot(Point_sub(call.ret.over_point, call.ret.point),
                                call.ret.eyev))

\* a hit from inside a sphere: over_point is strictly inside, off the surface
C11_OverPointInside ==
    /\ call.op = "prepare_computations"
    /\ call.self.object.shape = "Sphere"
    /\ call.self \in Range(Ray_intersect(call.ray, call.self.object))
    /\ call.ret.inside
    /\ call.ret.over_point # call.ret.point
    /\ FLt(Zero, Vector_dot(Point_sub(call.ret.over_point, call.ret.point),
                            call.ret.eyev))

\* C12: Plane::local_intersect returns no intersection when |ray.direction.y| <
\* EPSILON, wherever the origin is (also in the plane), and otherwise exactly one
\* intersection, whose t is -origin.y / direction.y and whose object is the plane.
C12_PlaneIntersectsUnlessParallel ==
    call.op = "Plane::local_intersect" =>
        IF FLt(FNeg(EPSILON), call.ray.direction.y) /\ FLt(call.ray.direction.y, EPSILON)
        THEN call.ret = <<>>
        ELSE /\ Len(call.ret) = 1
             /\ call.ret[1].t = FDiv(FNeg(call.ray.origin.y), call.ray.direction.y)
             /\ Ray_position(call.ray, call.ret[1].t).y = Zero
             /\ call.ret[1].object = call.self

\* a ray that lies in the plane: its origin in the plane, its direction parallel
C12_CoplanarRay ==
    /\ call.op = "Plane::local_intersect"
    /\ call.ray.origin.y = Zero
    /\ call.ray.direction.y = Zero
    /\ call.ret = <<>>

\* the discriminant b * b - 4 * a * c of the ray against the unit sphere at the origin
DiscriminantOf(ray) ==
    LET sphere_to_ray == Point_sub(ray.origin, Point_new(Zero, Zero, Zero))
        a == Vector_dot(ray.direction, ray.direction)
        b == FMul(I(2), Vector_dot(ray.direction, sphere_to_ray))
        c == FSub(Vector_dot(sphere_to_ray, sphere_to_ray), One)
    IN  FSub(FMul(b, b), FMul(FMul(I(4), a), c))

\* the point of the ray at t is on the unit sphere
OnUnitSphere(ray, t) ==
    LET radius == Point_sub(Ray_position(ray, t), Point_new(Zero, Zero, Zero))
    IN  Vector_dot(radius, radius) = One

\* C13: for a ray with non-zero direction, Sphere::local_intersect returns no
\* intersection exactly when the discriminant b * b - 4 * a * c is negative, and
\* otherwise exactly two, also for a tangent ray (both t equal), in non-decreasing
\* order of t and both referring to the sphere.
C13_SphereZeroOrTwo ==
    call.op = "Sphere::local_intersect" =>
        /\ (call.ret = <<>>) <=> FLt(DiscriminantOf(call.ray), Zero)
        /\ call.ret # <<>> =>
               /\ Len(call.ret) = 2
               /\ FLe(call.ret[1].t, call.ret[2].t)
               /\ (call.ret[1].t = call.ret[2].t) <=> (DiscriminantOf(call.ray) = Zero)
               /\ \A k \in 1..2 :
                      /\ call.ret[k].object = call.self
                      /\ OnUnitSphere(call.ray, call.ret[k].t)

\* a tangent ray that points towards -z: two intersections with the same t
C13_TangentRay ==
    /\ call.op = "Sphere::local_intersect"
    /\ DiscriminantOf(call.ray) = Zero
    /\ FLt(call.ray.direction.z, Zero)
    /\ Len(call.ret) = 2
    /\ call.ret[1] = call.ret[2]

\* C14: for a 4x4 matrix M with a non-zero determinant, M * inverse(M) and
\* inverse(M) * M equal the 4x4 identity and inverse(inverse(M)) equals M, with the
\* equality of Matrix's PartialEq.
C14_InverseIsTwoSided ==
    (call.op = "Matrix::inverse" /\ call.self.dimension = 4
        /\ Matrix_determinant(call.self) # Zero) =>
        /\ Matrix_eq(Matrix_mul(call.self, call.ret), Matrix_eye(4))
        /\ Matrix_eq(Matrix_mul(call.ret, call.self), Matrix_eye(4))
        /\ Matrix_determinant(call.ret) # Zero
        /\ Matrix_eq(Matrix_inverse(call.ret), call.self)

\* the inverse of a matrix that is neither symmetric nor a transform of the scenes
C14_InverseOfTestMatrix ==
    /\ call.op = "Matrix::inverse"
    /\ call.self.dimension = 4
    /\ Matrix_get(call.self, 0, 0) = I(8)
    /\ Matrix_determinant(call.self) = I(-585)
    /\ Matrix_get(call.ret, 3, 3) = <<-25, 13>>
    /\ Matrix_eq(Matrix_mul(call.ret, call.self), Matrix_eye(4))

\* C15: Matrix::inverse on a matrix whose determinant is 0 panics: the call returns
\* no matrix, neither a default one nor a partly computed one.
C15_SingularInversePanics ==
    (call.op = "Matrix::inverse" /\ Matrix_determinant(call.self) = Zero) =>
        /\ pc = "panic"
        /\ "ret" \notin DOMAIN call

\* a singular 4x4 matrix with a non-zero cofactor, which inverse would divide by 0
C15_SingularWithCofactor ==
    /\ call.op = "Matrix::inverse"
    /\ call.self.dimension = 4
    /\ Matrix_determinant(call.self) = Zero
    /\ Matrix_cofactor(call.self, 3, 3) # Zero
    /\ pc = "panic"

\* C16: Matrix * Matrix panics and produces no result whenever the operands'
\* dimension fields differ, and produces a matrix of the common dimension otherwise.
C16_MulPanicsOnDimensionMismatch ==
    call.op = "Matrix::mul" =>
        IF call.self.dimension # call.other.dimension
        THEN /\ pc = "panic"
             /\ "ret" \notin DOMAIN call
        ELSE /\ pc = "idle"
             /\ "ret" \in DOMAIN call
             /\ call.ret.dimension = call.self.dimension
             /\ call.ret.dimension = call.other.dimension

\* a 4x4 matrix times a 2x2 matrix
C16_FourByTwo ==
    /\ call.op = "Matrix::mul"
    /\ call.self.dimension = 4
    /\ call.other.dimension = 2
    /\ pc = "panic"

\* C17: Canvas::write_pixel with x >= width or y >= height panics and leaves every
\* cell of the canvas as it was: the write does not wrap around into another row or
\* column. Within the canvas it changes the cell (x, y) and no other.
C17_WriteOutOfCanvasPanics ==
    call.op = "Canvas::write_pixel" =>
        IF call.x >= call.before.width \/ call.y >= call.before.height
        THEN /\ pc = "panic"
             /\ image = call.before
        ELSE /\ pc = "idle"
             /\ image.canvas[call.y][call.x] = call.c
             /\ \A row \in 0..(image.height - 1), col \in 0..(image.width - 1) :
                    <<row, col>> # <<call.y, call.x>> =>
                        image.canvas[row][col] = call.before.canvas[row][col]

\* x = width on a row that is not the last: the cell after the end of the row
C17_WriteAfterEndOfRow ==
    /\ call.op = "Canvas::write_pixel"
    /\ call.before.height = 2
    /\ call.x = call.before.width
    /\ call.y = 0
    /\ call.before.canvas[1][0] # call.c
    /\ pc = "panic"
    /\ image = call.before

\* the point at which color_at_object samples the pattern
PatternPointOf(self, object, point) ==
    Matrix_mul_point(Matrix_inverse(Pattern_get_transform(self)),
                     Matrix_mul_point(Matrix_inverse(object.transform), point))

\* the stripe of the pattern that x lies in: color1 on [2k, 2k + 1), color2 on
\* [2k + 1, 2k + 2)
StripeOf(pattern, x) ==
    IF \E k \in -4..4 : FLe(I(2 * k), x) /\ FLt(x, I(2 * k + 1)) THEN pattern.color1
    ELSE pattern.color2

\* C18: Pattern::color_at, and so color_at_object, panics on Pattern::None for every
\* point and returns no color; on a Stripe variant it returns the color of the
\* stripe pattern at the point.
C18_NonePatternPanics ==
    call.op \in {"Pattern::color_at", "Patterned::color_at_object"} =>
        IF call.self = Pattern_None
        THEN /\ pc = "panic"
             /\ "ret" \notin DOMAIN call
        ELSE /\ pc = "idle"
             /\ call.self.variant = "Stripe"
             /\ call.ret = StripeOf(call.self.pattern,
                                    IF call.op = "Pattern::color_at" THEN call.point.x
                                    ELSE PatternPointOf(call.self, call.object,
                                                        call.point).x)

\* color_at_object on the None pattern, for an object whose transform is invertible
C18_NoneOnObject ==
    /\ call.op = "Patterned::color_at_object"
    /\ call.self = Pattern_None
    /\ call.object = SphereB
    /\ pc = "panic"

\* C19: after any changes of a Camera's h_size, v_size or field_of_view, its
\* half_width, half_height and pixel_size are those Camera::new computes from the
\* current h_size, v_size and field_of_view.
C19_DerivedFollowFields ==
    LET fresh == Camera_new(camera.h_size, camera.v_size, camera.field_of_view)
    IN  /\ camera.half_width = fresh.half_width
        /\ camera.half_height = fresh.half_height
        /\ camera.pixel_size = fresh.pixel_size

\* a camera whose h_size was changed after Camera::new: pixel_size is the old one
C19_StalePixelSize ==
    /\ call = NoCall
    /\ camera.h_size = 3
    /\ camera.v_size = 1
    /\ camera.pixel_size = One
    /\ Camera_new(3, 1, camera.field_of_view).pixel_size = <<1, 3>>

\* C20: for h_size >= 1 and v_size >= 1, with aspect = h_size / v_size, Camera::new
\* yields half_width = half_view and half_height = half_view / aspect if aspect >= 1,
\* half_width = half_view * aspect and half_height = half_view otherwise, and
\* pixel_size = 2 * half_width / h_size; so aspect = 1 gives half_width = half_height
\* = half_view, and the w x h and h x w cameras have the same pixel_size.
C20_CameraNewDerivedFields ==
    call.op = "Camera::new" =>
        LET half_view == call.field_of_view.tan_half
            aspect == FDiv(I(call.h_size), I(call.v_size))
        IN  /\ call.ret.h_size = call.h_size
            /\ call.ret.v_size = call.v_size
            /\ IF FLe(One, aspect)
               THEN /\ call.ret.half_width = half_view
                    /\ FMul(call.ret.half_height, aspect) = half_view
               ELSE /\ call.ret.half_width = FMul(half_view, aspect)
                    /\ call.ret.half_height = half_view
            /\ FMul(call.ret.pixel_size, I(call.h_size)) = FMul(I(2), call.ret.half_width)
            /\ call.h_size = call.v_size =>
                   /\ call.ret.half_width = half_view
                   /\ call.ret.half_height = half_view
            /\ Camera_new(call.v_size, call.h_size, call.field_of_view).pixel_size
                   = call.ret.pixel_size

\* a camera higher than wide
C20_TallCamera ==
    /\ call.op = "Camera::new"
    /\ call.h_size = 2
    /\ call.v_size = 3
    /\ call.ret.half_height = I(2)
    /\ call.ret.half_width = <<4, 3>>
    /\ call.ret.pixel_size = <<4, 3>>

\* C21: translation(v) * p = p + v for a point p and translation(v) * u = u for a
\* vector u; so Ray::transform by a translation moves the origin of the ray and
\* leaves its direction as it is.
C21_TranslationMovesPointsOnly ==
    \A v \in TranslationVectors :
        /\ (call.op = "Matrix::mul_point" /\ call.self = Matrix_translation(v)) =>
               call.ret = Point_add(call.other, v)
        /\ (call.op = "Matrix::mul_vector" /\ call.self = Matrix_translation(v)) =>
               call.ret = call.other
        /\ (call.op = "Ray::transform" /\ call.transformation = Matrix_translation(v)) =>
               /\ call.ret.origin = Point_add(call.self.origin, v)
               /\ call.ret.direction = call.self.direction

\* a ray moved by a translation: another origin, the same direction
C21_RayTranslated ==
    /\ call.op = "Ray::transform"
    /\ call.transformation = Matrix_translation(Vector_new(One, I(-2), Half))
    /\ call.self.direction = Vector_new(Half, I(-1), I(2))
    /\ call.ret.origin # call.self.origin
    /\ call.ret.direction = call.self.direction

\* the last row of the 4x4 matrix m is (0, 0, 0, 1): m is an affine transform
Affine(m) ==
    /\ Matrix_get(m, 3, 0) = Zero
    /\ Matrix_get(m, 3, 1) = Zero
    /\ Matrix_get(m, 3, 2) = Zero
    /\ Matrix_get(m, 3, 3) = One

\* (a * b) * other = a * (b * other) for the call in progress, a Matrix * Point or
\* a Matrix * Vector
ComposedIsNested(a, b) ==
    /\ (call.op = "Matrix::mul_point" /\ call.self = Matrix_mul(a, b)) =>
           call.ret = Matrix_mul_point(a, Matrix_mul_point(b, call.other))
    /\ (call.op = "Matrix::mul_vector" /\ call.self = Matrix_mul(a, b)) =>
           call.ret = Matrix_mul_vector(a, Matrix_mul_vector(b, call.other))

\* C22 as stated: for all 4x4 matrices A and B, every point p and every vector u,
\* (A * B) * p = A * (B * p) and (A * B) * u = A * (B * u).
C22_ComposeAnyMatrices ==
    \A a \in TransformFactors, b \in TransformFactors : ComposedIsNested(a, b)

\* C22, amended: for all 4x4 matrices A and B where the last row of B is
\* (0, 0, 0, 1), every point p and every vector u, (A * B) * p = A * (B * p) and
\* (A * B) * u = A * (B * u): the rightmost factor is applied first.
C22_ComposeAffine ==
    \A a \in TransformFactors, b \in TransformFactors : Affine(b) => ComposedIsNested(a, b)

\* a scaling after a translation, which do not commute, applied to a point
C22_ScaledAfterTranslated ==
    /\ call.op = "Matrix::mul_point"
    /\ call.self = Matrix_mul(Matrix_scaling(Vector_new(I(2), Half, I(-1))),
                              Matrix_translation(Vector_new(I(5), I(-3), I(2))))
    /\ call.other = Point_new(I(-3), I(4), I(5))
    /\ call.ret = Point_new(I(4), Half, I(-7))

\* floor(x): the whole number n with n <= x < n + 1
FloorOf(x) == CHOOSE n \in -9..9 : FLe(I(n), x) /\ FLt(x, I(n + 1))

\* n is even
Even(n) == \E k \in -15..15 : n = 2 * k

\* C23: StripePattern::color_at returns color1 when floor(x) is even and color2 when
\* it is odd, for negative x as for the others (floor(x) = -1 gives color2, -2 gives
\* color1), whatever y and z are.
C23_StripeByFloorOfX ==
    call.op = "StripePattern::color_at" =>
        /\ call.ret = IF Even(FloorOf(call.point.x)) THEN call.self.color1
                      ELSE call.self.color2
        /\ FloorOf(call.point.x) = -1 => call.ret = call.self.color2
        /\ FloorOf(call.point.x) = -2 => call.ret = call.self.color1
        /\ \A p \in SamplePoints :
               p.x = call.point.x => StripePattern_color_at(call.self, p) = call.ret

\* x = -1/2, off the axis: floor(x) is -1
C23_StripeAtMinusHalf ==
    /\ call.op = "StripePattern::color_at"
    /\ call.point.x = <<-1, 2>>
    /\ call.point.y # Zero
    /\ call.point.z # Zero
    /\ call.ret = call.self.color2

\* C24: CheckerPattern::color_at returns color1 when floor(x) + floor(y) + floor(z)
\* is even and color2 when it is odd, also when the sum is negative.
C24_CheckerByFloorSum ==
    call.op = "CheckerPattern::color_at" =>
        call.ret = IF Even(FloorOf(call.point.x) + FloorOf(call.point.y)
                               + FloorOf(call.point.z))
                   THEN call.self.color1 ELSE call.self.color2

\* floors -1, -2 and 0: a negative odd sum
C24_CheckerNegativeOddSum ==
    /\ call.op = "CheckerPattern::color_at"
    /\ call.point = Point_new(<<-1, 2>>, <<-3, 2>>, Zero)
    /\ Floor(call.point.x) + Floor(call.point.y) + Floor(call.point.z) = -3
    /\ call.ret = call.self.color2

\* the line split at its spaces: the empty line holds no sample
RECURSIVE SplitAt(_, _, _, _)
SplitAt(line, k, token, tokens) ==
    IF k > Len(line) THEN Append(tokens, token)
    ELSE IF line[k] = " " THEN SplitAt(line, k + 1, <<>>, Append(tokens, token))
         ELSE SplitAt(line, k + 1, Append(token, line[k]), tokens)

SamplesOf(line) == IF line = <<>> THEN <<>> ELSE SplitAt(line, 1, <<>>, <<>>)

\* the samples of lines i..j in order
RECURSIVE SamplesOfLines(_, _, _)
SamplesOfLines(lines, i, j) ==
    IF i > j THEN <<>> ELSE SamplesOf(lines[i]) \o SamplesOfLines(lines, i + 1, j)

\* the sample 0..255 of a component: 0 at or below 0, 255 at or above 1, else
\* the integer nearest to 255 * c, the upper one of two
SampleOf(c) ==
    IF FLe(c, Zero) THEN 0
    ELSE IF FLe(One, c) THEN 255
    ELSE CHOOSE n \in 0..255 : /\ FLe(FSub(I(n), Half), FMul(I(255), c))
                               /\ FLt(FMul(I(255), c), FAdd(I(n), Half))

\* the number written in decimal digits
RECURSIVE NumberOf(_)
NumberOf(token) ==
    IF token = <<>> THEN 0
    ELSE 10 * NumberOf(SubSeq(token, 1, Len(token) - 1))
         + (CHOOSE d \in 0..10 : d = 10 \/ Decimal(d) = <<token[Len(token)]>>)

\* the samples of a canvas row: r, g, b of each cell from left to right
RowSamples(canvas, row) ==
    [k \in 1..(3 * canvas.width) |->
        LET cell == canvas.canvas[row][(k - 1) \div 3]
        IN  SampleOf(IF k % 3 = 1 THEN cell.r ELSE IF k % 3 = 2 THEN cell.g ELSE cell.b)]

NumbersOf(tokens) == [k \in 1..Len(tokens) |-> NumberOf(tokens[k])]

\* lines i.. hold the rows row.. of the canvas, each row on lines of its own
RECURSIVE RowsOnOwnLines(_, _, _, _)
RowsOnOwnLines(canvas, lines, i, row) ==
    IF row >= canvas.height THEN i = Len(lines) + 1
    ELSE \E j \in i..Len(lines) :
             /\ NumbersOf(SamplesOfLines(lines, i, j)) = RowSamples(canvas, row)
             /\ RowsOnOwnLines(canvas, lines, j + 1, row + 1)

\* C25: Canvas::to_ppm returns the three header lines "P3", "<width> <height>"
\* and "255", then data lines of at most 70 characters that hold whole samples
\* separated by single spaces, every canvas row starting on a new line and the
\* samples read in order being those of the canvas in row-major r, g, b order,
\* and last an empty line.
C25_PpmLayout ==
    (call.op = "Canvas::to_ppm") =>
        LET Layout(ppm, canvas) ==
                /\ Len(ppm) >= 4
                /\ ppm[1] = <<"P", "3">>
                /\ SamplesOf(ppm[2]) = <<Decimal(canvas.width), Decimal(canvas.height)>>
                /\ ppm[3] = <<"2", "5", "5">>
                /\ ppm[Len(ppm)] = <<>>
                /\ \A i \in 4..(Len(ppm) - 1) :
                       /\ Len(ppm[i]) <= 70
                       /\ \A token \in Range(SamplesOf(ppm[i])) :
                              token # <<>> /\ Decimal(NumberOf(token)) = token
                /\ RowsOnOwnLines(canvas, SubSeq(ppm, 4, Len(ppm) - 1), 1, 0)
        IN  Layout(call.ret, call.self)

\* a row of 36 samples wraps after a line of exactly 70 characters
C25_LineOfSeventy ==
    /\ call.op = "Canvas::to_ppm"
    /\ call.self.width = 12
    /\ Len(call.ret) = 6
    /\ Len(call.ret[4]) = 70

\* the components of a canvas in row-major r, g, b order
ComponentsOf(canvas) ==
    [k \in 1..(3 * canvas.width * canvas.height) |->
        LET cell == canvas.canvas[(k - 1) \div (3 * canvas.width)][((k - 1) \div 3) % canvas.width]
        IN  IF k % 3 = 1 THEN cell.r ELSE IF k % 3 = 2 THEN cell.g ELSE cell.b]

\* C26: every sample Canvas::to_ppm emits is an integer in 0..255: 0 for a
\* component <= 0, 255 for a component >= 1, and for a component c in between
\* 255 * c rounded to the nearest integer, halves upwards (0.5 gives 128).
C26_SamplesClampedAndRounded ==
    (call.op = "Canvas::to_ppm") =>
        LET Rounded(numbers, components) ==
                /\ Len(numbers) = Len(components)
                /\ \A k \in 1..Len(numbers) :
                       /\ numbers[k] \in 0..255
                       /\ FLe(components[k], Zero) => numbers[k] = 0
                       /\ FLe(One, components[k]) => numbers[k] = 255
                       /\ (FLt(Zero, components[k]) /\ FLt(components[k], One)) =>
                              numbers[k] = Floor(FAdd(FMul(I(255), components[k]), Half))
                       /\ (components[k] = Half) => numbers[k] = 128
        IN  Rounded(NumbersOf(SamplesOfLines(call.ret, 4, Len(call.ret))),
                    ComponentsOf(call.self))

\* a cell of (1.5, 0.5, -0.5) is written as 255 128 0
C26_HalfIs128 ==
    /\ call.op = "Canvas::to_ppm"
    /\ call.self.width = 3
    /\ call.self.canvas[0][0] = Color_new(FDiv(I(3), I(2)), Half, FNeg(Half))
    /\ SubSeq(call.ret[4], 1, 9) = <<"2", "5", "5", " ", "1", "2", "8", " ", "0">>

\* the color last written to cell (x, y) of the canvas, black if none was
LastWritten(x, y) ==
    LET at == {k \in DOMAIN writes : writes[k].x = x /\ writes[k].y = y}
    IN  IF at = {} THEN Color_black ELSE writes[CHOOSE k \in at : TRUE].color

\* C27: a new Canvas(width, height) has width * height cells, all black; after
\* in-range write_pixel calls every cell holds the color of the last write to it
\* (black if none), and a write to (x, y) changes that cell only: width, height
\* and every other cell stay as they were.
C27_CellsHoldLastWrite ==
    /\ DOMAIN image.canvas = 0..(image.height - 1)
    /\ \A y \in DOMAIN image.canvas :
           /\ DOMAIN image.canvas[y] = 0..(image.width - 1)
           /\ \A x \in DOMAIN image.canvas[y] : image.canvas[y][x] = LastWritten(x, y)
    /\ (call.op = "Canvas::new") =>
           /\ image.width = call.width /\ image.height = call.height
           /\ \A y \in 0..(call.height - 1), x \in 0..(call.width - 1) :
                  image.canvas[y][x] = Color_black
    /\ (call.op = "Canvas::write_pixel" /\ pc = "idle") =>
           /\ image.width = call.before.width /\ image.height = call.before.height
           /\ image.canvas[call.y][call.x] = call.c
           /\ \A y \in 0..(image.height - 1), x \in 0..(image.width - 1) :
                  (x # call.x \/ y # call.y) =>
                      image.canvas[y][x] = call.before.canvas[y][x]

\* a cell is written a second time while its neighbour in the row keeps an
\* earlier write and a third cell was never written
C27_Overwrite ==
    /\ call.op = "Canvas::write_pixel" /\ pc = "idle"
    /\ image.width = 2 /\ image.height = 2
    /\ call.x = 0 /\ call.y = 1
    /\ call.before.canvas[1][0] = Color_white
    /\ call.c = Color_new(One, Zero, Zero)
    /\ image.canvas[1][1] = Color_white
    /\ image.canvas[0][1] = Color_black

\* the permutations of 1..d
PermutationsOf(d) == {p \in [1..d -> 1..d] : \A i, j \in 1..d : i # j => p[i] # p[j]}

\* +1 for an even number of inversions, -1 for an odd one
SignOf(p) ==
    IF Cardinality({ij \in (DOMAIN p) \X (DOMAIN p) : ij[1] < ij[2] /\ p[ij[1]] > p[ij[2]]}) % 2 = 0
    THEN One ELSE FNeg(One)

\* the product of the cells (i, p[i]) of the block for the rows from i on
RECURSIVE ProductAlong(_, _, _)
ProductAlong(m, p, i) ==
    IF i > m.dimension THEN One
    ELSE FMul(Matrix_get(m, i - 1, p[i] - 1), ProductAlong(m, p, i + 1))

\* the signed sum over a set of permutations
RECURSIVE SignedSum(_, _)
SignedSum(m, perms) ==
    IF perms = {} THEN Zero
    ELSE LET Rest(p) == FAdd(FMul(SignOf(p), ProductAlong(m, p, 1)), SignedSum(m, perms \ {p}))
         IN  Rest(CHOOSE p \in perms : TRUE)

\* C28: for a matrix of dimension 1, 2, 3 or 4 built by Matrix::new,
\* Matrix::determinant returns the determinant of its block, the signed sum
\* over the permutations of the products of its cells.
C28_DeterminantIsSignedSum ==
    (call.op = "Matrix::determinant" /\ call.self.dimension \in 1..4) =>
        call.ret = SignedSum(call.self, PermutationsOf(call.self.dimension))

\* the determinant of the 1 x 1 matrix [5] comes out as 0
C28_OneByOneIsZero ==
    /\ call.op = "Matrix::determinant"
    /\ call.self.dimension = 1
    /\ Matrix_get(call.self, 0, 0) = I(5)
    /\ call.ret = Zero

\* the cells of the 4x4 storage outside the dimension x dimension block are 0.0
ZeroOutsideBlock(m) ==
    \A row \in 0..3, col \in 0..3 :
        (row >= m.dimension \/ col >= m.dimension) => Matrix_get(m, row, col) = Zero

\* same dimension, and the cells of the blocks within EPSILON of each other
BlocksEqual(a, b) ==
    /\ a.dimension = b.dimension
    /\ \A row \in 0..(a.dimension - 1), col \in 0..(a.dimension - 1) :
           FLt(FAbs(FSub(Matrix_get(a, row, col), Matrix_get(b, row, col))), EPSILON)

\* C29: a matrix obtained from Matrix::new and Matrix::eye by a sequence of
\* transpose, submatrix, inverse and matrix multiplication has 0.0 in every cell
\* of its storage outside its dimension x dimension block, and Matrix equality
\* on such matrices holds exactly when the dimensions are equal and the blocks
\* are componentwise equal within epsilon.
C29_ZeroOutsideBlock ==
    /\ ("steps" \in DOMAIN call) => ZeroOutsideBlock(call.ret)
    /\ (call.op = "Matrix::eq") => (call.ret <=> BlocksEqual(call.self, call.other))

\* the zero matrix of dimension 0 reached by two operations has the cells of
\* the zero matrix of dimension 2 and differs from it
C29_SameCellsOtherDimension ==
    /\ call.op = "Matrix::eq"
    /\ call.after = 2
    /\ call.self.dimension = 0
    /\ call.other.dimension = 2
    /\ call.self.grid = call.other.grid
    /\ ~call.ret

\* a result compared with a matrix that differs from it by half of EPSILON in
\* one cell of the block: equal
C29_EqualWithinEpsilon ==
    /\ call.op = "Matrix::eq"
    /\ call.after = 2
    /\ call.self.dimension = 3
    /\ call.self # call.other
    /\ call.ret

\* C30: of several intersections that share the least positive t,
\* Intersection::hit returns the one that comes first in the list; on the sorted
\* list World::intersect returns it is the first element whose t is > 0.
C30_FirstOfNearestWins ==
    /\ (call.op \in {"hit", "hit(intersect)"}) =>
           \A k \in DOMAIN call.intersections :
               (/\ FLt(Zero, call.intersections[k].t)
                /\ \A j \in DOMAIN call.intersections :
                       /\ FLt(Zero, call.intersections[j].t) =>
                              FLe(call.intersections[k].t, call.intersections[j].t)
                       /\ (j < k /\ FLt(Zero, call.intersections[j].t)) =>
                              FLt(call.intersections[k].t, call.intersections[j].t))
               => call.ret = Some(call.intersections[k])
    /\ (call.op = "hit(intersect)") =>
           \A k \in DOMAIN call.intersections :
               (/\ FLt(Zero, call.intersections[k].t)
                /\ \A j \in 1..(k - 1) : ~FLt(Zero, call.intersections[j].t))
               => call.ret = Some(call.intersections[k])

\* World::intersect returns two intersections of different objects at the least
\* positive t, and hit returns the first of them
C30_TieInSortedList ==
    /\ call.op = "hit(intersect)"
    /\ \E k \in DOMAIN call.intersections :
           /\ k + 1 \in DOMAIN call.intersections
           /\ call.intersections[k].t = call.intersections[k + 1].t
           /\ call.intersections[k].object # call.intersections[k + 1].object
           /\ call.ret = Some(call.intersections[k])
====
